---- MODULE Spec2Model ----
(***************************************************************************)
(* Model of the configuration stores of openai-backup (src/store.go):      *)
(*   - configStore: the password-gated store that keeps the configuration  *)
(*     document as one AES-GCM blob in table configs, and the password     *)
(*     salt / key hash in table metadata;                                  *)
(*   - ConfigStore: the item store that keeps one row per setting in       *)
(*     table config_items.                                                 *)
(* Cryptography is symbolic: a derived key records the password and salt   *)
(* it was derived from, a hash records its preimage, a ciphertext records  *)
(* the key, nonce and plaintext it was sealed with.                        *)
(***************************************************************************)
EXTENDS Integers, Sequences, FiniteSets, TLC

VARIABLES
    metadata,      \* table metadata: rows key_salt and key_hash
    configs,       \* table configs: the row named "active", or none
    key,           \* configStore.key ([]byte, nil when absent)
    hasPassword,   \* configStore.hasPassword
    unlocked,      \* configStore.unlocked
    pc,            \* per request: position inside the store operation
    frame,         \* per request: arguments and locals of the operation
    pre,           \* per request: the store as it was when the call began
    result,        \* per request: what the operation returned
    verified,      \* history: this process completed SetPassword or a matching Unlock
    setOk,         \* history: number of SetPassword calls that returned nil
    setPw,         \* history: the password given to the successful SetPassword
    setKey,        \* history: the key that SetPassword installed
    rotated,       \* history: an UpdatePassword committed after that SetPassword
    savedDoc,      \* history: the document of the last successful SaveConfig
    staleBlob,     \* history: a key replacement happened after that SaveConfig
    savedHere,     \* history: that SaveConfig was made by the running process
    config_items,  \* table config_items of ConfigStore
    itemsRet,      \* what the last ConfigStore operation returned
    itemsTx,       \* the open transaction of persistConfigItems, if any
    itemsRd,       \* position of the LoadConfig in progress
    itemsCommitted, \* history: config_items as of the last commit
    cfg,           \* webServer.cfg, the live configuration
    configMu,      \* webServer.configMu: the request holding it for writing, or 0
    appHasPassword, \* webServer.hasPassword
    configUnlocked, \* webServer.configUnlocked
    pageCache,     \* webServer.pageCache
    detailCache,   \* webServer.detailCache
    anyClient,     \* webServer.anyClient
    notionClient,  \* webServer.notionClient
    now,           \* time.Now(), in seconds
    wpc,           \* per request: position inside the handler
    wframe,        \* per request: locals of the handler
    resp,          \* per request: the last answer given
    whist          \* history: counters of configuration updates

storeVars == <<metadata, configs, key, hasPassword, unlocked>>
procVars == <<pc, frame, pre, result>>
histVars == <<verified, setOk, setPw, setKey, rotated, savedDoc, staleBlob, savedHere>>
itemVars == <<config_items, itemsRet, itemsTx, itemsRd, itemsCommitted>>
vars ==
    <<storeVars, procVars, histVars, itemVars, cfg, configMu, appHasPassword, configUnlocked,
      pageCache, detailCache, anyClient, notionClient, now, wpc, wframe, resp, whist>>

----------------------------------------------------------------------------
(* Bounds of the model *)

\* number of distinct values randomBytes(16) can return in the model
NumSalts == 2
\* number of distinct nonces the random source can return in the model
NumNonces == 2
\* cap on the history counter setOk
MaxSetOk == 2
\* cap on the updateConfig calls one server process serves
MaxUpdates == 2

Salts == 1..NumSalts
Nonces == 1..NumNonces
Procs == {1, 2}

----------------------------------------------------------------------------
(* Values *)

None == << >>
Some(v) == <<v>>

minPasswordBytes == 8

Rep(c, n) == [i \in 1..n |-> c]

\* Passwords: bytes are " " (white space), "a" and "b".
pwA == Rep("a", minPasswordBytes)
pwB == Rep("b", minPasswordBytes)
pwSpaced == <<" ">> \o pwA \o <<" ">>
pwShort == Rep("a", minPasswordBytes - 1)
pwPadded == <<" ">> \o pwShort
pwBlank == <<" ">>

Passwords == {pwA, pwB, pwSpaced, pwShort, pwPadded, pwBlank}

IsSpace(c) == c = " "

RECURSIVE TrimLeft(_)
TrimLeft(s) ==
    IF s = << >> THEN s
    ELSE IF IsSpace(Head(s)) THEN TrimLeft(Tail(s)) ELSE s

RECURSIVE TrimRight(_)
TrimRight(s) ==
    IF s = << >> THEN s
    ELSE IF IsSpace(s[Len(s)]) THEN TrimRight(SubSeq(s, 1, Len(s) - 1)) ELSE s

\* strings.TrimSpace
TrimSpace(s) == TrimRight(TrimLeft(s))

\* Document strings: "a", "b" are valid characters, "x" is a byte that is
\* not valid UTF-8, "R" is U+FFFD, " " is white space.
Utf8Coerce(s) == [i \in 1..Len(s) |-> IF s[i] = "x" THEN "R" ELSE s[i]]

ValidUtf8(s) == \A i \in 1..Len(s) : s[i] # "x"

Doc(token, pageSize) == [token |-> token, page_size |-> pageSize]

Docs ==
    { Doc(<<"a">>, 20), Doc(<<"b">>, 50), Doc(<<"x", "a">>, 20), Doc(<< >>, 7) }

\* encoding/json: Marshal coerces strings to valid UTF-8, numbers are exact
StringFields == {"token", "order", "target", "notion_parent_type", "anytype_token", "notion_token"}

jsonMarshal(d) ==
    [json |-> [f \in DOMAIN d |-> IF f \in StringFields THEN Utf8Coerce(d[f]) ELSE d[f]]]

jsonUnmarshal(b) == b.json

\* scrypt.Key(password, salt, N, r, p, 32): deterministic and, symbolically,
\* injective in (password, salt)
deriveKey(password, salt) == [pw |-> password, salt |-> salt]

\* sha256.Sum256
sha256Sum(k) == [sha |-> k]

\* compareBytes: equal length and no differing byte
compareBytes(a, b) == a = b

\* configStore.encrypt: gcm.Seal(nonce, nonce, data, nil) under s.key (k is
\* the field s.key, present when the guards passed)
encrypt(k, nonce, data) == [key |-> k, nonce |-> nonce, data |-> data]

\* a decrypt that splits nonce and ciphertext at the wrong offset: gcm.Open
\* rejects every input
decryptFails(k, enc) == FALSE

\* configStore.decrypt: gcm.Open succeeds only under the sealing key
decryptOk(k, enc) == enc.key = k

decrypt(k, enc) == enc.data

----------------------------------------------------------------------------
(* Errors *)

ErrNil == "nil"
errPasswordNotSet == "errPasswordNotSet"
errStoreLocked == "errStoreLocked"
errInvalidPassword == "errInvalidPassword"
errPasswordTooShort == "errPasswordTooShort"
errPasswordExists == "errPasswordExists"
errConfigNotFound == "errConfigNotFound"
errDB == "errDB"
errDecrypt == "errDecrypt"
\* fmt.Errorf("metadata key %s not found", key)
errMetaNotFound == "errMetaNotFound"
\* errors.New("配置存储缺少密码信息")
errNoPasswordInfo == "errNoPasswordInfo"

----------------------------------------------------------------------------
(* The metadata table and its transactions *)

EmptyMeta == [key_salt |-> None, key_hash |-> None]

Stmt(kind, k, v) == [kind |-> kind, key |-> k, value |-> v]

\* INSERT INTO metadata(key, value) VALUES(?, ?): fails on an existing key
\* (key is the PRIMARY KEY); with ON CONFLICT(key) DO UPDATE it replaces.
StmtFails(work, st) == st.kind = "insert" /\ work[st.key] # None

\* DELETE FROM config_items WHERE key NOT IN (...) keeps the keys listed
ExecStmt(work, st) ==
    IF st.kind = "deleteNotIn"
    THEN [k \in DOMAIN work |-> IF k \in st.value THEN work[k] ELSE None]
    ELSE [work EXCEPT ![st.key] = Some(st.value)]

\* Runs statements i.. of the transaction on the working copy; failAt names
\* the statement at which the driver reports an error (I/O, cancellation).
RECURSIVE RunStmts(_, _, _, _)
RunStmts(work, stmts, i, failAt) ==
    IF i > Len(stmts) THEN [ok |-> TRUE, work |-> work]
    ELSE IF failAt = i \/ StmtFails(work, stmts[i]) THEN [ok |-> FALSE, work |-> work]
    ELSE RunStmts(ExecStmt(work, stmts[i]), stmts, i + 1, failAt)

\* Failure points of a transaction of n statements: 0 is BeginTx, 1..n the
\* statements, n+1 the Commit, n+2 no failure.
FailPoints(n) == 0..(n + 2)

\* What a request records of the failure injected: -1 when there was none
IoOf(n, failAt) == IF failAt = n + 2 THEN -1 ELSE failAt

\* The statements run without a transaction: what ran before a failure stays.
ExecAutocommit(meta, stmts, failAt) ==
    IF failAt = 0 THEN [ok |-> FALSE, meta |-> meta]
    ELSE LET r == RunStmts(meta, stmts, 1, failAt) IN
         IF ~r.ok THEN [ok |-> FALSE, meta |-> r.work]
         ELSE [ok |-> failAt # Len(stmts) + 1, meta |-> r.work]

\* db.BeginTx ... tx.ExecContext ... tx.Rollback / tx.Commit: the committed
\* table after the transaction, and whether it committed.
ExecTx(meta, stmts, failAt) ==
    IF failAt = 0 THEN [ok |-> FALSE, meta |-> meta]
    ELSE LET r == RunStmts(meta, stmts, 1, failAt) IN
         IF ~r.ok THEN [ok |-> FALSE, meta |-> meta]
         ELSE IF failAt = Len(stmts) + 1 THEN [ok |-> FALSE, meta |-> meta]
         ELSE [ok |-> TRUE, meta |-> r.work]

\* The same rows written with ON CONFLICT(key) DO UPDATE
SetPasswordStmtsUpsert(salt, hash) ==
    << Stmt("upsert", "key_salt", salt), Stmt("upsert", "key_hash", hash) >>

\* SetPassword: two plain INSERTs
SetPasswordStmts(salt, hash) ==
    << Stmt("insert", "key_salt", salt), Stmt("insert", "key_hash", hash) >>

\* UpdatePassword: two INSERT ... ON CONFLICT(key) DO UPDATE
UpdatePasswordStmts(salt, hash) ==
    << Stmt("upsert", "key_salt", salt), Stmt("upsert", "key_hash", hash) >>

\* detectPassword: SELECT 1 FROM metadata WHERE key = 'key_salt'
detectPassword(meta) == meta.key_salt # None

----------------------------------------------------------------------------
(* Requests *)

IdleFrame ==
    [op |-> "none", pw |-> << >>, doc |-> None, salt |-> 0, key |-> None,
     enc |-> None, matched |-> FALSE, io |-> -1]

NoPre ==
    [metadata |-> EmptyMeta, configs |-> None, key |-> None,
     hasPassword |-> FALSE, unlocked |-> FALSE]

NoResult == [err |-> "none", payload |-> None]

Snapshot ==
    [metadata |-> metadata, configs |-> configs, key |-> key,
     hasPassword |-> hasPassword, unlocked |-> unlocked]

\* The history variable pre follows the calls of the first request
Observed(t) == \A u \in Procs : t <= u

PreOf(t) == IF Observed(t) THEN Snapshot ELSE NoPre

Begin(t, op, pw, doc) ==
    /\ pc[t] = "idle"
    /\ pre' = [pre EXCEPT ![t] = PreOf(t)]
    /\ frame' = [frame EXCEPT ![t] = [IdleFrame EXCEPT !.op = op, !.pw = pw, !.doc = doc]]

\* Like Begin, with the locals the first statements of the operation set
BeginWith(t, op, pw, doc, salt, k, enc) ==
    /\ pc[t] = "idle"
    /\ pre' = [pre EXCEPT ![t] = PreOf(t)]
    /\ frame' = [frame EXCEPT ![t] =
                    [op |-> op, pw |-> pw, doc |-> doc, salt |-> salt, key |-> k,
                     enc |-> enc, matched |-> FALSE, io |-> -1]]

Goto(t, label) ==
    /\ pc' = [pc EXCEPT ![t] = label]
    /\ result' = result

Ret(t, err, payload) ==
    /\ pc' = [pc EXCEPT ![t] = "ret"]
    /\ result' = [result EXCEPT ![t] = [err |-> err, payload |-> payload]]

\* The caller takes the result; the request is over.
Return(t) ==
    /\ pc[t] = "ret"
    /\ pc' = [pc EXCEPT ![t] = "idle"]
    /\ frame' = [frame EXCEPT ![t] = IdleFrame]
    /\ pre' = [pre EXCEPT ![t] = NoPre]
    /\ result' = [result EXCEPT ![t] = NoResult]
    /\ UNCHANGED <<storeVars, histVars, itemVars>>

----------------------------------------------------------------------------
(* configStore.SetPassword *)

Bump(n) == IF n < MaxSetOk THEN n + 1 ELSE n

\* if s.hasPassword { return errors.New("密码已存在...") }
SetPasswordRefused(hp) == hp

\* password = strings.TrimSpace(password); len(password) < minPasswordBytes
PasswordTooShort(p) == Len(TrimSpace(p)) < minPasswordBytes

\* Guards, validation, salt := randomBytes(16), key := deriveKey(password, salt)
SetPasswordCheck(t, p) ==
    /\ pc[t] = "idle"
    /\ IF SetPasswordRefused(hasPassword)
       THEN Begin(t, "SetPassword", p, None) /\ Ret(t, errPasswordExists, None)
       ELSE IF PasswordTooShort(p)
       THEN Begin(t, "SetPassword", p, None) /\ Ret(t, errPasswordTooShort, None)
       ELSE \E salt \in Salts :
              /\ BeginWith(t, "SetPassword", p, None, salt,
                           Some(deriveKey(TrimSpace(p), salt)), None)
              /\ Goto(t, "sp_tx")
    /\ UNCHANGED <<storeVars, histVars, itemVars>>

\* The transaction that inserts key_salt and key_hash
SetPasswordTx(t) ==
    /\ pc[t] = "sp_tx"
    /\ \E failAt \in FailPoints(2) :
         LET k == frame[t].key[1]
             r == ExecTx(metadata, SetPasswordStmts(frame[t].salt, sha256Sum(k)), failAt)
         IN /\ metadata' = r.meta
            /\ IF r.ok THEN Goto(t, "sp_mem") ELSE Ret(t, errDB, None)
            /\ frame' = [frame EXCEPT ![t].io = IoOf(2, failAt)]
    /\ UNCHANGED <<configs, key, hasPassword, unlocked, pre, histVars, itemVars>>

\* s.key = key; s.hasPassword = true; s.unlocked = true; return nil
SetPasswordMem(t) ==
    /\ pc[t] = "sp_mem"
    /\ key' = frame[t].key
    /\ hasPassword' = TRUE
    /\ unlocked' = TRUE
    /\ Ret(t, ErrNil, None)
    /\ verified' = TRUE
    /\ setOk' = Bump(setOk)
    /\ setPw' = Some(frame[t].pw)
    /\ setKey' = frame[t].key
    /\ rotated' = FALSE
    /\ UNCHANGED <<metadata, configs, frame, pre, savedDoc, staleBlob, savedHere, itemVars>>

----------------------------------------------------------------------------
(* configStore.Unlock *)

\* the password used as given
UnlockPasswordRaw(p) == p

\* password = strings.TrimSpace(password)
UnlockPassword(p) == TrimSpace(p)

\* the comparison left out: every derived key is accepted
HashMatchesAlways(k, existing) == TRUE

\* compareBytes(hash[:], existing) on hash := sha256.Sum256(key)
HashMatches(k, existing) == compareBytes(sha256Sum(k), existing)

UnlockCheck(t, p) ==
    /\ pc[t] = "idle"
    /\ Begin(t, "Unlock", p, None)
    /\ IF ~hasPassword THEN Ret(t, errPasswordNotSet, None)
       ELSE IF UnlockPassword(p) = << >> THEN Ret(t, errInvalidPassword, None)
       ELSE Goto(t, "ul_salt")
    /\ UNCHANGED <<storeVars, histVars, itemVars>>

\* a salt row whose value has no bytes
EmptySalt == 0

\* a hash row whose value has no bytes
EmptyHash == [sha |-> None]

\* salt := loadMetadataValue(key_salt); if len(salt) == 0 { error };
\* key := deriveKey(password, salt)
UnlockLoadSalt(t) ==
    /\ pc[t] = "ul_salt"
    /\ \E fail \in BOOLEAN :
         IF fail \/ metadata.key_salt = None
         THEN /\ Ret(t, IF fail THEN errDB ELSE errMetaNotFound, None)
              /\ frame' = [frame EXCEPT ![t].io = IF fail THEN 1 ELSE -1]
         ELSE IF metadata.key_salt[1] = EmptySalt
         THEN Ret(t, errNoPasswordInfo, None) /\ frame' = frame
         ELSE /\ frame' = [frame EXCEPT ![t].key =
                             Some(deriveKey(UnlockPassword(frame[t].pw), metadata.key_salt[1]))]
              /\ Goto(t, "ul_hash")
    /\ UNCHANGED <<storeVars, pre, histVars, itemVars>>

\* existing := loadMetadataValue(key_hash); the comparison
UnlockVerify(t) ==
    /\ pc[t] = "ul_hash"
    /\ \E fail \in BOOLEAN :
         IF fail \/ metadata.key_hash = None
         THEN /\ Ret(t, IF fail THEN errDB ELSE errMetaNotFound, None)
              /\ frame' = [frame EXCEPT ![t].io = IF fail THEN 1 ELSE -1]
         ELSE IF ~HashMatches(frame[t].key[1], metadata.key_hash[1])
         THEN Ret(t, errInvalidPassword, None) /\ frame' = frame
         ELSE /\ frame' = [frame EXCEPT ![t].matched =
                             (sha256Sum(frame[t].key[1]) = metadata.key_hash[1])]
              /\ Goto(t, "ul_mem")
    /\ UNCHANGED <<storeVars, pre, histVars, itemVars>>

\* s.key = key; s.unlocked = true; return nil
UnlockMem(t) ==
    /\ pc[t] = "ul_mem"
    /\ key' = frame[t].key
    /\ unlocked' = TRUE
    /\ Ret(t, ErrNil, None)
    /\ verified' = (verified \/ frame[t].matched)
    /\ UNCHANGED <<metadata, configs, hasPassword, frame, pre,
                   setOk, setPw, setKey, rotated, savedDoc, staleBlob, savedHere, itemVars>>

----------------------------------------------------------------------------
(* configStore.UpdatePassword *)

\* the guard without the test of s.key
StoreLockedFlagOnly(u, k) == ~u

\* !s.unlocked || s.key == nil
StoreLocked(u, k) == ~u \/ k = None

\* the flag cleared by the rotation
UnlockedAfterUpdateCleared == FALSE

\* s.unlocked = true at the end of UpdatePassword
UnlockedAfterUpdate == TRUE

UpdatePasswordCheck(t, p) ==
    /\ pc[t] = "idle"
    /\ IF StoreLocked(unlocked, key)
       THEN Begin(t, "UpdatePassword", p, None) /\ Ret(t, errStoreLocked, None)
       ELSE IF PasswordTooShort(p)
       THEN Begin(t, "UpdatePassword", p, None) /\ Ret(t, errPasswordTooShort, None)
       ELSE \E salt \in Salts :
              /\ BeginWith(t, "UpdatePassword", p, None, salt,
                           Some(deriveKey(TrimSpace(p), salt)), None)
              /\ Goto(t, "up_tx")
    /\ UNCHANGED <<storeVars, histVars, itemVars>>

\* The transaction that replaces key_salt and key_hash; the configs row is
\* not part of it.
UpdatePasswordTx(t) ==
    /\ pc[t] = "up_tx"
    /\ \E failAt \in FailPoints(2) :
         LET k == frame[t].key[1]
             r == ExecTx(metadata, UpdatePasswordStmts(frame[t].salt, sha256Sum(k)), failAt)
         IN /\ metadata' = r.meta
            /\ IF r.ok THEN Goto(t, "up_mem") ELSE Ret(t, errDB, None)
            /\ frame' = [frame EXCEPT ![t].io = IoOf(2, failAt)]
            /\ rotated' = (rotated \/ r.ok)
    /\ UNCHANGED <<configs, key, hasPassword, unlocked, pre,
                   verified, setOk, setPw, setKey, savedDoc, staleBlob, savedHere, itemVars>>

\* s.key = key; s.hasPassword = true; s.unlocked = true; return nil
UpdatePasswordMem(t) ==
    /\ pc[t] = "up_mem"
    /\ key' = frame[t].key
    /\ hasPassword' = TRUE
    /\ unlocked' = UnlockedAfterUpdate
    /\ Ret(t, ErrNil, None)
    /\ staleBlob' = TRUE
    /\ UNCHANGED <<metadata, configs, frame, pre,
                   verified, setOk, setPw, setKey, rotated, savedDoc, savedHere, itemVars>>

----------------------------------------------------------------------------
(* configStore.SaveConfig and LoadConfig *)

\* Guards, json.Marshal, s.encrypt with a nonce from rand.Reader
SaveConfigCheck(t, d) ==
    /\ pc[t] = "idle"
    /\ IF ~hasPassword
       THEN Begin(t, "SaveConfig", << >>, Some(d)) /\ Ret(t, errPasswordNotSet, None)
       ELSE IF StoreLocked(unlocked, key)
       THEN Begin(t, "SaveConfig", << >>, Some(d)) /\ Ret(t, errStoreLocked, None)
       ELSE \E nonce \in Nonces :
              /\ BeginWith(t, "SaveConfig", << >>, Some(d), 0, None,
                           Some(encrypt(key, nonce, jsonMarshal(d))))
              /\ Goto(t, "sc_db")
    /\ UNCHANGED <<storeVars, histVars, itemVars>>

\* INSERT INTO configs ... ON CONFLICT(name) DO UPDATE: one statement
SaveConfigExec(t) ==
    /\ pc[t] = "sc_db"
    /\ \E fail \in BOOLEAN :
         IF fail
         THEN /\ Ret(t, errDB, None)
              /\ frame' = [frame EXCEPT ![t].io = 1]
              /\ UNCHANGED <<configs, savedDoc, staleBlob, savedHere>>
         ELSE /\ configs' = frame[t].enc
              /\ savedDoc' = frame[t].doc
              /\ staleBlob' = FALSE
              /\ savedHere' = TRUE
              /\ frame' = frame
              /\ Ret(t, ErrNil, None)
    /\ UNCHANGED <<metadata, key, hasPassword, unlocked, pre,
                   verified, setOk, setPw, setKey, rotated, itemVars>>

LoadConfigCheck(t) ==
    /\ pc[t] = "idle"
    /\ Begin(t, "LoadConfig", << >>, None)
    /\ IF ~hasPassword THEN Ret(t, errPasswordNotSet, None)
       ELSE IF StoreLocked(unlocked, key) THEN Ret(t, errStoreLocked, None)
       ELSE Goto(t, "lc_db")
    /\ UNCHANGED <<storeVars, histVars, itemVars>>

\* SELECT payload FROM configs WHERE name = 'active'
LoadConfigQuery(t) ==
    /\ pc[t] = "lc_db"
    /\ \E fail \in BOOLEAN :
         IF fail THEN Ret(t, errDB, None) /\ frame' = [frame EXCEPT ![t].io = 1]
         ELSE IF configs = None THEN Ret(t, errConfigNotFound, None) /\ frame' = frame
         ELSE /\ frame' = [frame EXCEPT ![t].enc = configs]
              /\ Goto(t, "lc_dec")
    /\ UNCHANGED <<storeVars, pre, histVars, itemVars>>

\* plain := s.decrypt(encrypted); json.Unmarshal(plain, &payload)
LoadConfigDecrypt(t) ==
    /\ pc[t] = "lc_dec"
    /\ IF decryptOk(key, frame[t].enc[1])
       THEN Ret(t, ErrNil, Some(jsonUnmarshal(decrypt(key, frame[t].enc[1]))))
       ELSE Ret(t, errDecrypt, None)
    /\ UNCHANGED <<storeVars, frame, pre, histVars, itemVars>>

----------------------------------------------------------------------------
(* newConfigStore: a new process opens the same file *)

\* a store that opens unlocked whatever the metadata holds
OpensUnlockedAlways(hp) == TRUE

\* store.unlocked = !hasPassword
OpensUnlocked(hp) == ~hp

Restart ==
    /\ \A t \in Procs : pc[t] = "idle"
    /\ hasPassword' = detectPassword(metadata)
    /\ unlocked' = OpensUnlocked(detectPassword(metadata))
    /\ key' = None
    /\ verified' = FALSE
    /\ savedHere' = FALSE
    /\ UNCHANGED <<metadata, configs, procVars,
                   setOk, setPw, setKey, rotated, savedDoc, staleBlob, itemVars>>

----------------------------------------------------------------------------
(* ConfigStore: table config_items *)

defaultPageSize == 20

ItemKeys == {"token", "page_size"}

SensitiveKeys == {"token"}

Digit(n) == <<"0", "1", "2", "3", "4", "5", "6", "7", "8", "9">>[n + 1]

RECURSIVE ItoaNat(_)
ItoaNat(n) == IF n < 10 THEN <<Digit(n)>> ELSE ItoaNat(n \div 10) \o <<Digit(n % 10)>>

\* strconv.Itoa
Itoa(n) == IF n < 0 THEN <<"-">> \o ItoaNat(-n) ELSE ItoaNat(n)

ItemPageSizes == {-1, 0, 20, 100}

ItemTokens == { << >>, <<"a">>, <<"b">>, <<" ", "a">> }

ItemDocs == { Doc(tk, ps) : tk \in ItemTokens, ps \in ItemPageSizes }

Row(value, encrypted) == [value |-> value, encrypted |-> encrypted]

\* A key that configPayloadToItems does not produce: a row left in the file
\* by another version of the program
LegacyKeys == {"legacy"}

TableKeys == ItemKeys \cup LegacyKeys

EmptyItems == [k \in TableKeys |-> None]

\* ensureDefaultConfigItems on a new file: the defaults of the keys modelled
DefaultItems == [EmptyItems EXCEPT !["page_size"] = Some(Row(Itoa(defaultPageSize), 0))]

\* The files the item store is opened on: a new one, and one holding a stale row
ItemFiles ==
    { DefaultItems, [DefaultItems EXCEPT !["legacy"] = Some(Row(<<"b">>, 0))] }

\* configPayloadToItems: every key of the document, numbers formatted
configPayloadToItems(payload) ==
    [k \in ItemKeys |-> IF k = "page_size" THEN Itoa(payload.page_size) ELSE payload.token]

\* encryptedFlag := int64(0) for every key; the value is the item's bytes
ItemRow(k, value) == Row(value, 0)

ItemKeySeq == <<"page_size", "token">>

\* The same upserts with a DELETE that keeps every key of the table
PersistStmtsNoDelete(payload) ==
    LET items == configPayloadToItems(payload) IN
    [i \in 1..Len(ItemKeySeq) |->
        Stmt("upsert", ItemKeySeq[i], ItemRow(ItemKeySeq[i], items[ItemKeySeq[i]]))]
    \o << Stmt("deleteNotIn", "", TableKeys) >>

\* persistConfigItems: one upsert per item, then the delete of the other keys
PersistStmts(payload) ==
    LET items == configPayloadToItems(payload) IN
    [i \in 1..Len(ItemKeySeq) |->
        Stmt("upsert", ItemKeySeq[i], ItemRow(ItemKeySeq[i], items[ItemKeySeq[i]]))]
    \o << Stmt("deleteNotIn", "", DOMAIN items) >>

\* The table a committed SaveConfig(payload) leaves
ItemsOf(payload) ==
    [k \in TableKeys |->
        IF k \in ItemKeys THEN Some(ItemRow(k, configPayloadToItems(payload)[k])) ELSE None]

DigitValue(c) == CHOOSE n \in 0..9 : Digit(n) = c

IsDigits(str) ==
    /\ Len(str) > 0
    /\ \A i \in 1..Len(str) : \E n \in 0..9 : Digit(n) = str[i]

RECURSIVE AtoiNat(_)
AtoiNat(str) ==
    IF Len(str) = 0 THEN 0
    ELSE 10 * AtoiNat(SubSeq(str, 1, Len(str) - 1)) + DigitValue(str[Len(str)])

\* strconv.Atoi: the number, or none when the text is not a decimal integer
Atoi(str) ==
    IF IsDigits(str) THEN Some(AtoiNat(str))
    ELSE IF Len(str) > 1 /\ str[1] = "-" /\ IsDigits(Tail(str)) THEN Some(-AtoiNat(Tail(str)))
    ELSE IF Len(str) > 1 /\ str[1] = "+" /\ IsDigits(Tail(str)) THEN Some(AtoiNat(Tail(str)))
    ELSE None

\* applyConfigItem: strings are trimmed, numbers parsed; a number that does
\* not parse and a key that is not a setting leave the document alone
applyConfigItem(payload, k, value) ==
    IF k = "token" THEN [payload EXCEPT !.token = TrimSpace(value)]
    ELSE IF k = "page_size"
         THEN LET v == Atoi(TrimSpace(value)) IN
              IF v # None THEN [payload EXCEPT !.page_size = v[1]] ELSE payload
    ELSE payload

RECURSIVE ApplyRows(_, _, _)
ApplyRows(payload, table, ks) ==
    IF ks = {} THEN payload
    ELSE LET k == CHOOSE x \in ks : TRUE IN
         ApplyRows(IF table[k] = None THEN payload
                   ELSE applyConfigItem(payload, k, table[k][1].value),
                   table, ks \ {k})

\* loadConfigItems up to its return statement: var payload ConfigPayload,
\* then applyConfigItem for every row of SELECT key, value FROM config_items
loadConfigItems(table) == ApplyRows(Doc(<< >>, 0), table, TableKeys)

\* The pool holds one connection (SetMaxOpenConns(1)): a statement outside
\* the transaction waits until the transaction has committed or rolled back
ConnFreeAlways(tx) == TRUE

ConnFree(tx) == ~tx.busy

NoTx == [busy |-> FALSE, payload |-> None, i |-> 0, failAt |-> 0, undo |-> None]

\* io is the step of the transaction that failed, -1 when none did
ItemsRet(op, err, payload, before, from, io) ==
    [op |-> op, err |-> err, payload |-> payload, pre |-> before, from |-> from, io |-> io]

\* persistConfigItems: s.db.BeginTx
ItemsBeginTx ==
    /\ ConnFree(itemsTx)
    /\ \E payload \in ItemDocs, failAt \in FailPoints(Len(ItemKeySeq) + 1) :
          IF failAt = 0
          THEN /\ itemsRet' = ItemsRet("SaveConfig", errDB, Some(payload), Some(config_items), None, 0)
               /\ UNCHANGED itemsTx
          ELSE /\ itemsTx' = [busy |-> TRUE, payload |-> Some(payload), i |-> 1,
                              failAt |-> failAt, undo |-> Some(config_items)]
               /\ UNCHANGED itemsRet
    /\ UNCHANGED <<config_items, itemsCommitted, itemsRd>>

\* persistConfigItems: the next tx.ExecContext; on an error tx.Rollback
ItemsExec ==
    /\ itemsTx.busy
    /\ LET stmts == PersistStmts(itemsTx.payload[1]) IN
       /\ itemsTx.i <= Len(stmts)
       /\ IF itemsTx.failAt = itemsTx.i
          THEN /\ config_items' = itemsTx.undo[1]
               /\ itemsTx' = NoTx
               /\ itemsRet' = ItemsRet("SaveConfig", errDB, itemsTx.payload, itemsTx.undo, None, itemsTx.i)
          ELSE /\ config_items' = ExecStmt(config_items, stmts[itemsTx.i])
               /\ itemsTx' = [itemsTx EXCEPT !.i = @ + 1]
               /\ UNCHANGED itemsRet
    /\ UNCHANGED <<itemsCommitted, itemsRd>>

\* persistConfigItems: tx.Commit
ItemsCommit ==
    /\ itemsTx.busy
    /\ itemsTx.i = Len(PersistStmts(itemsTx.payload[1])) + 1
    /\ IF itemsTx.failAt = itemsTx.i
       THEN /\ config_items' = itemsTx.undo[1]
            /\ itemsRet' = ItemsRet("SaveConfig", errDB, itemsTx.payload, itemsTx.undo, None, itemsTx.i)
            /\ UNCHANGED itemsCommitted
       ELSE /\ itemsCommitted' = config_items
            /\ itemsRet' = ItemsRet("SaveConfig", ErrNil, itemsTx.payload, itemsTx.undo, None, -1)
            /\ UNCHANGED config_items
    /\ itemsTx' = NoTx
    /\ UNCHANGED itemsRd

\* ConfigStore.SaveConfig -> persistConfigItems, in one transaction
ItemsSaveConfig ==
    (ItemsBeginTx \/ ItemsExec \/ ItemsCommit) /\ UNCHANGED <<storeVars, procVars, histVars>>

HasRows(table) == \E k \in TableKeys : table[k] # None

\* ConfigStore.HasConfigItems
ItemsHasConfig ==
    /\ ConnFree(itemsTx)
    /\ itemsRd = "idle"
    /\ \E fail \in BOOLEAN :
          itemsRet' = ItemsRet("HasConfigItems",
                               IF fail THEN errDB
                               ELSE IF HasRows(config_items) THEN ErrNil ELSE errConfigNotFound,
                               None, None, None, -1)
    /\ UNCHANGED <<config_items, itemsTx, itemsCommitted, itemsRd, storeVars, procVars, histVars>>

\* ConfigStore.LoadConfig: HasConfigItems (SELECT COUNT(*))
ItemsLoadCount ==
    /\ ConnFree(itemsTx)
    /\ itemsRd = "idle"
    /\ \E fail \in BOOLEAN :
          IF fail \/ ~HasRows(config_items)
          THEN /\ itemsRet' = ItemsRet("LoadConfig", IF fail THEN errDB ELSE errConfigNotFound,
                                       None, None, None, -1)
               /\ UNCHANGED itemsRd
          ELSE /\ itemsRd' = "counted"
               /\ UNCHANGED itemsRet
    /\ UNCHANGED <<config_items, itemsTx, itemsCommitted>>

\* ConfigStore.LoadConfig: loadConfigItems (SELECT key, value)
ItemsLoadRows ==
    /\ ConnFree(itemsTx)
    /\ itemsRd = "counted"
    /\ itemsRd' = "idle"
    /\ \E fail \in BOOLEAN :
          itemsRet' = IF fail THEN ItemsRet("LoadConfig", errDB, None, None, None, -1)
                      ELSE ItemsRet("LoadConfig", ErrNil, Some(loadConfigItems(config_items)),
                                    None, Some(itemsCommitted), -1)
    /\ UNCHANGED <<config_items, itemsTx, itemsCommitted>>

ItemsLoadConfig ==
    (ItemsLoadCount \/ ItemsLoadRows) /\ UNCHANGED <<storeVars, procVars, histVars>>

----------------------------------------------------------------------------
(* webServer: the configuration snapshot (src/server.go) *)

sUpdated == <<"u", "p", "d", "a", "t", "e", "d">>
sCreated == <<"c", "r", "e", "a", "t", "e", "d">>
sAnytype == <<"a", "n", "y", "t", "y", "p", "e">>
sNotion == <<"n", "o", "t", "i", "o", "n">>
sPage == <<"p", "a", "g", "e">>
sDatabase == <<"d", "a", "t", "a", "b", "a", "s", "e">>

UpperChars == <<"A", "C", "D", "N", "P", "U">>
LowerChars == <<"a", "c", "d", "n", "p", "u">>

ToLowerChar(c) ==
    IF \E i \in 1..Len(UpperChars) : UpperChars[i] = c
    THEN LowerChars[CHOOSE i \in 1..Len(UpperChars) : UpperChars[i] = c]
    ELSE c

\* strings.ToLower
ToLower(s) == [i \in 1..Len(s) |-> ToLowerChar(s[i])]

normalizeExportTarget(value) ==
    IF ToLower(TrimSpace(value)) = sNotion THEN sNotion ELSE sAnytype

normalizeOrder(value) ==
    IF ToLower(TrimSpace(value)) = sCreated THEN sCreated ELSE sUpdated

\* a page size kept in [1,100] by moving it to the nearest bound
clampPageSizeToRange(value) ==
    IF value < 1 THEN 1 ELSE IF value > 100 THEN 100 ELSE value

clampPageSize(value) ==
    LET v == IF value <= 0 THEN 20 ELSE value IN
    IF v > 100 THEN 100 ELSE v

nonNegative(value) == IF value < 0 THEN 0 ELSE value

sanitizeNotionParentType(value) ==
    LET v == ToLower(TrimSpace(value)) IN
    IF v = sPage THEN sPage ELSE IF v = sDatabase THEN sDatabase ELSE << >>

\* The fields of configPayload / configUpdate that the model keeps, in the
\* order updateConfig applies them
UpdateFields ==
    <<"target", "order", "page_size", "max_conversations", "initial_offset",
      "token", "anytype_token", "notion_token", "notion_parent_type">>

PayloadKeys == { UpdateFields[i] : i \in 1..Len(UpdateFields) }

\* cliConfig, the fields kept
CliConfig(token, pageSize, maxConversations, initialOffset, order, target,
          parentType, anytypeToken, notionToken) ==
    [Token |-> token, PageSize |-> pageSize, MaxConversations |-> maxConversations,
     InitialOffset |-> initialOffset, Order |-> order, ExportTarget |-> target,
     NotionParentType |-> parentType, AnytypeToken |-> anytypeToken,
     NotionToken |-> notionToken]

\* configToPayload
configToPayload(c) ==
    [token |-> TrimSpace(c.Token),
     page_size |-> clampPageSize(c.PageSize),
     max_conversations |-> nonNegative(c.MaxConversations),
     initial_offset |-> nonNegative(c.InitialOffset),
     order |-> normalizeOrder(c.Order),
     target |-> normalizeExportTarget(c.ExportTarget),
     notion_parent_type |-> sanitizeNotionParentType(c.NotionParentType),
     anytype_token |-> TrimSpace(c.AnytypeToken),
     notion_token |-> TrimSpace(c.NotionToken)]

\* applyConfigPayload
applyConfigPayload(c, payload) ==
    [Token |-> TrimSpace(payload.token),
     PageSize |-> IF payload.page_size > 0 THEN payload.page_size ELSE c.PageSize,
     MaxConversations |-> payload.max_conversations,
     InitialOffset |-> payload.initial_offset,
     Order |-> payload.order,
     ExportTarget |-> normalizeExportTarget(payload.target),
     NotionParentType |-> sanitizeNotionParentType(payload.notion_parent_type),
     AnytypeToken |-> TrimSpace(payload.anytype_token),
     NotionToken |-> TrimSpace(payload.notion_token)]

\* The cliConfig field that a configUpdate field is written to
CfgField(f) ==
    CASE f = "target" -> "ExportTarget"
      [] f = "order" -> "Order"
      [] f = "page_size" -> "PageSize"
      [] f = "max_conversations" -> "MaxConversations"
      [] f = "initial_offset" -> "InitialOffset"
      [] f = "token" -> "Token"
      [] f = "anytype_token" -> "AnytypeToken"
      [] f = "notion_token" -> "NotionToken"
      [] f = "notion_parent_type" -> "NotionParentType"

\* updateConfig: the value stored for a field that the patch carries
UpdateValue(f, v) ==
    CASE f = "target" -> normalizeExportTarget(v)
      [] f = "order" -> normalizeOrder(v)
      [] f = "page_size" -> clampPageSize(v)
      [] f \in {"max_conversations", "initial_offset"} -> nonNegative(v)
      [] f = "notion_parent_type" -> sanitizeNotionParentType(v)
      [] OTHER -> TrimSpace(v)

\* a field written whether or not the patch carries it: an absent string
\* becomes empty and an absent number zero
ApplyUpdateFieldAlways(c, input, f) ==
    [c EXCEPT ![CfgField(f)] =
        IF input[f] # None THEN UpdateValue(f, input[f][1])
        ELSE IF f \in {"page_size", "max_conversations", "initial_offset"}
             THEN UpdateValue(f, 0) ELSE UpdateValue(f, << >>)]

\* updateConfig: if input.F != nil { cfg.F = ... }
ApplyUpdateField(c, input, f) ==
    IF input[f] # None THEN [c EXCEPT ![CfgField(f)] = UpdateValue(f, input[f][1])] ELSE c

RECURSIVE ApplyUpdateFrom(_, _, _)
ApplyUpdateFrom(c, input, i) ==
    IF i > Len(UpdateFields) THEN c
    ELSE ApplyUpdateFrom(ApplyUpdateField(c, input, UpdateFields[i]), input, i + 1)

\* the whole patch, as the critical section of updateConfig applies it
ApplyUpdate(c, input) == ApplyUpdateFrom(c, input, 1)

NoUpdate == [f \in PayloadKeys |-> None]

Update1(f, v) == [NoUpdate EXCEPT ![f] = Some(v)]

Update2(f, v, g, w) == [NoUpdate EXCEPT ![f] = Some(v), ![g] = Some(w)]

\* the configuration the command line hands to newWebServer
CliDefault == CliConfig(<< >>, 20, 0, 0, sUpdated, sAnytype, << >>, << >>, << >>)

CliRaw == CliConfig(<<" ", "a">>, 500, -1, -2, <<"b">>, <<"N", "o", "t", "i", "o", "n">>,
                    <<"P", "a", "g", "e", " ">>, <<"a">>, << >>)

\* newWebServer: the normalized copy of the command-line configuration
StartConfig(c) ==
    [c EXCEPT !.Token = TrimSpace(c.Token),
              !.ExportTarget = normalizeExportTarget(c.ExportTarget),
              !.Order = normalizeOrder(c.Order),
              !.PageSize = clampPageSize(c.PageSize),
              !.MaxConversations = nonNegative(c.MaxConversations),
              !.InitialOffset = nonNegative(c.InitialOffset),
              !.NotionParentType = sanitizeNotionParentType(c.NotionParentType)]

----------------------------------------------------------------------------
(* webServer: requests *)

webCfgVars == <<cfg, configMu>>
flagVars == <<appHasPassword, configUnlocked>>
cacheVars == <<pageCache, detailCache>>
clientVars == <<anyClient, notionClient>>
reqVars == <<wpc, wframe, resp>>
webVars == <<webCfgVars, flagVars, cacheVars, clientVars, reqVars, whist, now>>
storeSide == <<storeVars, procVars, histVars, itemVars>>

\* conversationCacheTTL = 30 * time.Second, detailCacheTTL = 5 * time.Minute,
\* in seconds
conversationCacheTTL == 30
detailCacheTTL == 300

\* The instants (seconds) at which requests arrive
Instants == {0, 30, 60, 300, 301}

PageKeys == { <<0, 20>> }
ConvIds == { "c1" }

EmptyPageCache == [k \in PageKeys |-> None]
EmptyDetailCache == [id \in ConvIds |-> None]

\* history: ver counts the changes of the configuration committed (by an
\* update or by an unlock), doneVer is the highest ver of a change whose
\* request has returned, done counts the calls returned,
\* pageInv / detailInv count the invalidations, started the calls begun,
\* committed is the configuration as of the last release of configMu, wiped
\* tells that an invalidation has removed a page entry, failed that a
\* SaveConfig called by updateConfig has returned an error
NoHist ==
    [ver |-> 0, doneVer |-> 0, done |-> 0, pageInv |-> 0, detailInv |-> 0, started |-> 0,
     resets |-> 0, anyResets |-> 0, handed |-> 0, failed |-> FALSE,
     committed |-> None, wiped |-> FALSE]

HistAt(c) == [NoHist EXCEPT !.committed = Some(c)]

IdleW ==
    [op |-> "none", input |-> None, i |-> 0, before |-> None, cfgCopy |-> None,
     payload |-> None, pw |-> << >>, key |-> None, force |-> FALSE, snap |-> None,
     data |-> None, meta |-> None, ver |-> 0, done0 |-> 0, seen |-> None, doneVer0 |-> 0,
     old |-> << >>, st0 |-> None, inv0 |-> None, removed |-> None]

\* What a request answered: status is the HTTP status, or 0 for the result of
\* a call that is not a handler (200 stands for a nil error there); the other
\* fields record what the request saw: at is the instant of the answer, seen
\* the age of the cache entry that a read found and did not return
NoResp ==
    [op |-> "none", status |-> 0, body |-> None, input |-> None, before |-> None,
     after |-> None, perr |-> "none", entry |-> None, done0 |-> 0, doneVer |-> 0,
     st |-> None, client |-> None, force |-> FALSE, at |-> 0, seen |-> None, epoch |-> 0]

StoreFlags == [hasPassword |-> hasPassword, unlocked |-> unlocked]

Resp(op, status, body) ==
    [NoResp EXCEPT !.op = op, !.status = status, !.body = body, !.st = Some(StoreFlags),
                   !.at = now]

\* writeError(w, status, ...); perr records what made the handler refuse:
\* the error of the store call, or one of the two causes below for a check
\* of the handler itself
ErrResp(op, status, cause) == [Resp(op, status, None) EXCEPT !.perr = cause]

\* the request is refused for the state of the server (locked, no password)
causeState == "state"

\* the request is refused for its content (blank password)
causeValidation == "validation"

WGoto(t, label) == wpc' = [wpc EXCEPT ![t] = label]

\* an order of the calls that hands the document to the store first
UpdateConfigPersistFirst ==
    <<"uc_unlock", "uc_persist", "uc_inv_page", "uc_inv_detail", "uc_reset_any",
      "uc_reset_notion">>

\* an order of the calls that releases the lock last
UpdateConfigUnlockLast ==
    <<"uc_inv_page", "uc_inv_detail", "uc_reset_any", "uc_reset_notion", "uc_persist",
      "uc_unlock">>

\* updateConfig after the last field: s.configMu.Unlock(),
\* invalidateConversationCache(), clearDetailCache(), resetExportClients()
\* (two fields), persistConfig(&cfgCopy)
UpdateConfigOrder ==
    <<"uc_unlock", "uc_inv_page", "uc_inv_detail", "uc_reset_any", "uc_reset_notion",
      "uc_persist">>

\* The statement that follows the call named label; return payload, nil is last
After(label) ==
    LET i == CHOOSE j \in 1..Len(UpdateConfigOrder) : UpdateConfigOrder[j] = label
    IN  IF i = Len(UpdateConfigOrder) THEN "uc_return" ELSE UpdateConfigOrder[i + 1]

WSet(t, fr) == wframe' = [wframe EXCEPT ![t] = fr]

\* The answer is written; the request ends with the next step
Respond(t, r) ==
    /\ wpc' = [wpc EXCEPT ![t] = "done"]
    /\ wframe' = [wframe EXCEPT ![t] = IdleW]
    /\ resp' = [resp EXCEPT ![t] = r]

\* The handler has returned
Finish(t) ==
    /\ wpc[t] = "done"
    /\ wpc' = [wpc EXCEPT ![t] = "idle"]
    /\ resp' = [resp EXCEPT ![t] = NoResp]
    /\ UNCHANGED <<wframe, webCfgVars, flagVars, cacheVars, clientVars, whist, now, storeSide>>

\* s.configMu: 0 when no writer holds it. Readers take and release it within
\* one step, so only the writer is recorded.
configMuFreeAlways(mu) == TRUE

configMuFree(mu) == mu = 0

\* a state response that reports what the store was opened as
StateBodyAsOpened ==
    [has_password |-> appHasPassword, unlocked |-> OpensUnlocked(appHasPassword)]

\* configStateResponse{HasPassword, Unlocked}
StateBody == [has_password |-> appHasPassword, unlocked |-> configUnlocked]

----------------------------------------------------------------------------
(* handleConfig *)

\* 403 for GET when the request is refused
GetForbiddenUnlessOpen(hp, cu) == ~hp \/ ~cu

\* handleConfig, GET: if s.hasPassword && !s.configUnlocked
GetForbidden(hp, cu) == hp /\ ~cu

HandleConfigGetCheck(t) ==
    /\ wpc[t] = "idle"
    /\ IF GetForbidden(appHasPassword, configUnlocked)
       THEN Respond(t, ErrResp("GET /api/config", 403, causeState))
       ELSE /\ WGoto(t, "get_read")
            /\ WSet(t, [IdleW EXCEPT !.op = "GET /api/config"])
            /\ UNCHANGED resp
    /\ UNCHANGED <<webCfgVars, flagVars, cacheVars, clientVars, whist, now, storeSide>>

\* currentConfigPayload: RLock, configToPayload(s.cfg), RUnlock
HandleConfigGetRead(t) ==
    /\ wpc[t] = "get_read"
    /\ configMuFree(configMu)
    /\ Respond(t, [Resp("GET /api/config", 200, Some(configToPayload(cfg)))
                      EXCEPT !.before = whist.committed])
    /\ UNCHANGED <<webCfgVars, flagVars, cacheVars, clientVars, whist, now, storeSide>>

\* handleConfig, POST: if !s.configUnlocked 403, else updateConfig(input)
HandleConfigPostCheck(t, input) ==
    /\ wpc[t] = "idle"
    /\ IF ~configUnlocked
       THEN /\ Respond(t, [ErrResp("POST /api/config", 403, causeState) EXCEPT !.input = Some(input)])
            /\ UNCHANGED whist
       ELSE /\ whist.started < MaxUpdates
            /\ whist' = [whist EXCEPT !.started = @ + 1]
            /\ WGoto(t, "uc_lock")
            /\ WSet(t, [IdleW EXCEPT !.op = "POST /api/config", !.input = Some(input)])
            /\ UNCHANGED resp
    /\ UNCHANGED <<webCfgVars, flagVars, cacheVars, clientVars, now, storeSide>>

\* updateConfig: s.configMu.Lock()
UpdateConfigLock(t) ==
    /\ wpc[t] = "uc_lock"
    /\ configMuFree(configMu)
    /\ configMu' = t
    /\ WGoto(t, "uc_apply")
    /\ WSet(t, [wframe[t] EXCEPT !.before = Some(cfg), !.i = 1])
    /\ UNCHANGED <<cfg, resp, flagVars, cacheVars, clientVars, whist, now, storeSide>>

\* updateConfig: the next if input.F != nil { ... }
UpdateConfigApply(t) ==
    /\ wpc[t] = "uc_apply"
    /\ cfg' = ApplyUpdateField(cfg, wframe[t].input[1], UpdateFields[wframe[t].i])
    /\ WSet(t, [wframe[t] EXCEPT !.i = @ + 1])
    /\ WGoto(t, IF wframe[t].i = Len(UpdateFields) THEN UpdateConfigOrder[1] ELSE "uc_apply")
    /\ UNCHANGED <<configMu, resp, flagVars, cacheVars, clientVars, whist, now, storeSide>>

\* updateConfig: cfgCopy := *cfg; payload := configToPayload(cfg); Unlock()
UpdateConfigUnlock(t) ==
    /\ wpc[t] = "uc_unlock"
    /\ configMu' = 0
    /\ whist' = [whist EXCEPT !.ver = @ + 1, !.committed = Some(cfg)]
    /\ WSet(t, [wframe[t] EXCEPT !.cfgCopy = Some(cfg), !.payload = Some(configToPayload(cfg)),
                                 !.ver = whist.ver + 1])
    /\ WGoto(t, After("uc_unlock"))
    /\ UNCHANGED <<cfg, resp, flagVars, cacheVars, clientVars, now, storeSide>>

\* an invalidation that leaves the entries where they are
invalidateKeepsEntries(cache) == cache

\* invalidateConversationCache: s.pageCache = make(map...)
invalidateConversationCache(cache) == [k \in DOMAIN cache |-> None]

\* clearDetailCache: s.detailCache = make(map...)
clearDetailCache(cache) == [id \in DOMAIN cache |-> None]

UpdateConfigInvalidatePage(t) ==
    /\ wpc[t] = "uc_inv_page"
    /\ pageCache' = invalidateConversationCache(pageCache)
    /\ whist' = [whist EXCEPT !.pageInv = @ + 1,
                              !.wiped = @ \/ \E k \in PageKeys : pageCache[k] # None]
    /\ WGoto(t, After("uc_inv_page"))
    /\ UNCHANGED <<webCfgVars, wframe, resp, flagVars, detailCache, clientVars, now, storeSide>>

\* clearDetailCache
UpdateConfigClearDetail(t) ==
    /\ wpc[t] = "uc_inv_detail"
    /\ detailCache' = clearDetailCache(detailCache)
    /\ whist' = [whist EXCEPT !.detailInv = @ + 1]
    /\ WGoto(t, After("uc_inv_detail"))
    /\ UNCHANGED <<webCfgVars, wframe, resp, flagVars, pageCache, clientVars, now, storeSide>>

\* resetExportClients: s.anyClient = nil
UpdateConfigResetAny(t) ==
    /\ wpc[t] = "uc_reset_any"
    /\ anyClient' = None
    /\ whist' = [whist EXCEPT !.anyResets = @ + 1]
    /\ WGoto(t, After("uc_reset_any"))
    /\ UNCHANGED <<webCfgVars, wframe, resp, flagVars, cacheVars, notionClient, now, storeSide>>

\* resetExportClients: s.notionClient = nil
UpdateConfigResetNotion(t) ==
    /\ wpc[t] = "uc_reset_notion"
    /\ notionClient' = None
    /\ whist' = [whist EXCEPT !.resets = @ + 1]
    /\ WGoto(t, After("uc_reset_notion"))
    /\ UNCHANGED <<webCfgVars, wframe, resp, flagVars, cacheVars, anyClient, now, storeSide>>

\* persistConfig(&cfgCopy): s.store.SaveConfig(ctx, configToPayload(cfg))
UpdateConfigPersist(t) ==
    /\ wpc[t] = "uc_persist"
    /\ SaveConfigCheck(t, configToPayload(wframe[t].cfgCopy[1]))
    /\ whist' = [whist EXCEPT !.handed = @ + 1]
    /\ WGoto(t, "uc_persisted")
    /\ UNCHANGED <<webCfgVars, wframe, resp, flagVars, cacheVars, clientVars, now>>

\* persistConfig: SaveConfig has returned; its error is logged, not returned
UpdateConfigPersisted(t) ==
    /\ wpc[t] = "uc_persisted"
    /\ pc[t] = "ret"
    /\ WGoto(t, After("uc_persist"))
    /\ UNCHANGED <<webCfgVars, wframe, resp, flagVars, cacheVars, clientVars, whist, now, storeSide>>

\* updateConfig returns payload, nil and handleConfig answers 200 with the
\* payload
UpdateConfigReturn(t) ==
    /\ wpc[t] = "uc_return"
    /\ pc[t] = "ret"
    /\ Return(t)
    /\ whist' = [whist EXCEPT !.done = @ + 1,
                              !.doneVer = IF wframe[t].ver > @ THEN wframe[t].ver ELSE @,
                              !.failed = @ \/ result[t].err # ErrNil]
    /\ Respond(t, [Resp("POST /api/config", 200, wframe[t].payload)
                      EXCEPT !.input = wframe[t].input, !.before = wframe[t].before,
                             !.after = wframe[t].cfgCopy, !.perr = result[t].err])
    /\ UNCHANGED <<webCfgVars, flagVars, cacheVars, clientVars, now>>

HandleConfigGet(t) == HandleConfigGetCheck(t) \/ HandleConfigGetRead(t)

HandleConfigPost(t, inputs) ==
    \/ \E input \in inputs : HandleConfigPostCheck(t, input)
    \/ UpdateConfigLock(t)
    \/ UpdateConfigApply(t)
    \/ UpdateConfigUnlock(t)
    \/ UpdateConfigInvalidatePage(t)
    \/ UpdateConfigClearDetail(t)
    \/ UpdateConfigResetAny(t)
    \/ UpdateConfigResetNotion(t)
    \/ UpdateConfigPersist(t)
    \/ UpdateConfigPersisted(t)
    \/ UpdateConfigReturn(t)

----------------------------------------------------------------------------
(* handleConfigUnlock *)

HandleUnlockCheck(t, p) ==
    /\ wpc[t] = "idle"
    /\ \/ /\ ~appHasPassword \/ TrimSpace(p) = << >>
          /\ Respond(t, ErrResp("POST /api/config/unlock", 400,
                                IF ~appHasPassword THEN causeState ELSE causeValidation))
          /\ UNCHANGED storeSide
       \/ /\ appHasPassword /\ TrimSpace(p) # << >>
          /\ UnlockCheck(t, TrimSpace(p))
          /\ WGoto(t, "hu_unlock")
          /\ WSet(t, [IdleW EXCEPT !.op = "POST /api/config/unlock", !.pw = TrimSpace(p)])
          /\ UNCHANGED resp
    /\ UNCHANGED <<webCfgVars, flagVars, cacheVars, clientVars, whist, now>>

\* s.store.Unlock returned
HandleUnlockResult(t) ==
    /\ wpc[t] = "hu_unlock"
    /\ pc[t] = "ret"
    /\ Return(t)
    /\ IF result[t].err = errInvalidPassword
       THEN Respond(t, ErrResp("POST /api/config/unlock", 401, result[t].err)) /\ UNCHANGED configUnlocked
       ELSE IF result[t].err # ErrNil
       THEN Respond(t, ErrResp("POST /api/config/unlock", 500, result[t].err)) /\ UNCHANGED configUnlocked
       ELSE /\ configUnlocked' = TRUE
            /\ WGoto(t, "hu_load")
            /\ UNCHANGED <<wframe, resp>>
    /\ UNCHANGED <<webCfgVars, appHasPassword, cacheVars, clientVars, whist, now>>

\* s.store.LoadConfig(r.Context())
HandleUnlockLoad(t) ==
    /\ wpc[t] = "hu_load"
    /\ LoadConfigCheck(t)
    /\ WGoto(t, "hu_loaded")
    /\ UNCHANGED <<webCfgVars, flagVars, cacheVars, clientVars, wframe, resp, whist, now>>

HandleUnlockLoaded(t) ==
    /\ wpc[t] = "hu_loaded"
    /\ pc[t] = "ret"
    /\ Return(t)
    /\ IF result[t].err = errConfigNotFound
       THEN Respond(t, Resp("POST /api/config/unlock", 200, Some(StateBody)))
       ELSE IF result[t].err # ErrNil
       THEN Respond(t, ErrResp("POST /api/config/unlock", 500, result[t].err))
       ELSE /\ WGoto(t, "hu_apply")
            /\ WSet(t, [wframe[t] EXCEPT !.payload = result[t].payload])
            /\ UNCHANGED resp
    /\ UNCHANGED <<webCfgVars, flagVars, cacheVars, clientVars, whist, now>>

\* s.configMu.Lock(); applyConfigPayload(s.cfg, payload); s.configMu.Unlock()
HandleUnlockApply(t) ==
    /\ wpc[t] = "hu_apply"
    /\ configMuFree(configMu)
    /\ cfg' = applyConfigPayload(cfg, wframe[t].payload[1])
    /\ whist' = [whist EXCEPT !.committed = Some(cfg'),
                              !.ver = IF cfg' # cfg THEN @ + 1 ELSE @,
                              !.doneVer = IF cfg' # cfg THEN whist.ver + 1 ELSE @]
    /\ Respond(t, [Resp("POST /api/config/unlock", 200, wframe[t].payload)
                      EXCEPT !.before = Some(cfg)])
    /\ UNCHANGED <<configMu, flagVars, cacheVars, clientVars, now, storeSide>>

HandleConfigUnlock(t, pws) ==
    \/ \E p \in pws : HandleUnlockCheck(t, p)
    \/ HandleUnlockResult(t)
    \/ HandleUnlockLoad(t)
    \/ HandleUnlockLoaded(t)
    \/ HandleUnlockApply(t)

----------------------------------------------------------------------------
(* handleConfigPassword *)

PasswordRequest(password, old, new) ==
    [password |-> password, old_password |-> old, new_password |-> new]

HandlePasswordCheck(t, req) ==
    /\ wpc[t] = "idle"
    /\ \/ /\ ~appHasPassword /\ TrimSpace(req.password) = << >>
          /\ Respond(t, ErrResp("POST /api/config/password", 400, causeValidation))
          /\ UNCHANGED storeSide
       \/ /\ ~appHasPassword /\ TrimSpace(req.password) # << >>
          /\ SetPasswordCheck(t, TrimSpace(req.password))
          /\ WGoto(t, "cp_set")
          /\ WSet(t, [IdleW EXCEPT !.op = "POST /api/config/password"])
          /\ UNCHANGED resp
       \/ /\ appHasPassword
          /\ TrimSpace(req.old_password) = << >> \/ TrimSpace(req.new_password) = << >>
          /\ Respond(t, ErrResp("POST /api/config/password", 400, causeValidation))
          /\ UNCHANGED storeSide
       \/ /\ appHasPassword
          /\ TrimSpace(req.old_password) # << >> /\ TrimSpace(req.new_password) # << >>
          /\ ~configUnlocked
          /\ UnlockCheck(t, TrimSpace(req.old_password))
          /\ WGoto(t, "cp_unlock")
          /\ WSet(t, [IdleW EXCEPT !.op = "POST /api/config/password",
                                   !.pw = TrimSpace(req.new_password),
                                   !.data = configs, !.old = TrimSpace(req.old_password),
                                   !.st0 = Some([metadata |-> metadata, key |-> key])])
          /\ UNCHANGED resp
       \/ /\ appHasPassword
          /\ TrimSpace(req.old_password) # << >> /\ TrimSpace(req.new_password) # << >>
          /\ configUnlocked
          /\ WGoto(t, "cp_rotate")
          /\ WSet(t, [IdleW EXCEPT !.op = "POST /api/config/password",
                                   !.pw = TrimSpace(req.new_password),
                                   !.data = configs, !.old = TrimSpace(req.old_password),
                                   !.st0 = Some([metadata |-> metadata, key |-> key])])
          /\ UNCHANGED <<resp, storeSide>>
    /\ UNCHANGED <<webCfgVars, flagVars, cacheVars, clientVars, whist, now>>

\* s.store.SetPassword returned
HandlePasswordSetResult(t) ==
    /\ wpc[t] = "cp_set"
    /\ pc[t] = "ret"
    /\ Return(t)
    /\ IF result[t].err # ErrNil
       THEN Respond(t, ErrResp("POST /api/config/password", 400, result[t].err)) /\ UNCHANGED flagVars
       ELSE /\ appHasPassword' = TRUE
            /\ configUnlocked' = TRUE
            /\ WGoto(t, "cp_persist")
            /\ UNCHANGED <<wframe, resp>>
    /\ UNCHANGED <<webCfgVars, cacheVars, clientVars, whist, now>>

\* s.persistConfig(s.cfg): SaveConfig(ctx, configToPayload(cfg)), s.cfg read
\* without configMu
HandlePasswordPersist(t) ==
    /\ wpc[t] = "cp_persist"
    /\ SaveConfigCheck(t, configToPayload(cfg))
    /\ WGoto(t, "cp_persisted")
    /\ UNCHANGED <<webCfgVars, flagVars, cacheVars, clientVars, wframe, resp, whist, now>>

HandlePasswordPersisted(t) ==
    /\ wpc[t] = "cp_persisted"
    /\ pc[t] = "ret"
    /\ Return(t)
    /\ Respond(t, [Resp("POST /api/config/password", 200,
                        Some([has_password |-> TRUE, unlocked |-> TRUE]))
                      EXCEPT !.perr = result[t].err])
    /\ UNCHANGED <<webCfgVars, flagVars, cacheVars, clientVars, whist, now>>

\* rotation on a locked server: s.store.Unlock(ctx, oldPassword) returned
HandlePasswordUnlockResult(t) ==
    /\ wpc[t] = "cp_unlock"
    /\ pc[t] = "ret"
    /\ Return(t)
    /\ IF result[t].err = errInvalidPassword
       THEN Respond(t, ErrResp("POST /api/config/password", 401, result[t].err)) /\ UNCHANGED configUnlocked
       ELSE IF result[t].err # ErrNil
       THEN Respond(t, ErrResp("POST /api/config/password", 500, result[t].err)) /\ UNCHANGED configUnlocked
       ELSE /\ configUnlocked' = TRUE
            /\ WGoto(t, "cp_rotate")
            /\ UNCHANGED <<wframe, resp>>
    /\ UNCHANGED <<webCfgVars, appHasPassword, cacheVars, clientVars, whist, now>>

\* payload := configToPayload(s.cfg); s.store.UpdatePassword(ctx, newPassword)
HandlePasswordRotate(t) ==
    /\ wpc[t] = "cp_rotate"
    /\ UpdatePasswordCheck(t, wframe[t].pw)
    /\ WGoto(t, "cp_rotated")
    /\ WSet(t, [wframe[t] EXCEPT !.payload = Some(configToPayload(cfg))])
    /\ UNCHANGED <<webCfgVars, flagVars, cacheVars, clientVars, resp, whist, now>>

HandlePasswordRotated(t) ==
    /\ wpc[t] = "cp_rotated"
    /\ pc[t] = "ret"
    /\ Return(t)
    /\ IF result[t].err # ErrNil
       THEN Respond(t, ErrResp("POST /api/config/password", 400, result[t].err))
       ELSE WGoto(t, "cp_save") /\ UNCHANGED <<wframe, resp>>
    /\ UNCHANGED <<webCfgVars, flagVars, cacheVars, clientVars, whist, now>>

\* s.store.SaveConfig(ctx, payload)
HandlePasswordSave(t) ==
    /\ wpc[t] = "cp_save"
    /\ SaveConfigCheck(t, wframe[t].payload[1])
    /\ WGoto(t, "cp_saved")
    /\ UNCHANGED <<webCfgVars, flagVars, cacheVars, clientVars, wframe, resp, whist, now>>

HandlePasswordSaved(t) ==
    /\ wpc[t] = "cp_saved"
    /\ pc[t] = "ret"
    /\ Return(t)
    /\ Respond(t, [Resp("POST /api/config/password",
                        IF result[t].err # ErrNil THEN 500 ELSE 200,
                        IF result[t].err # ErrNil THEN None
                        ELSE Some([has_password |-> TRUE, unlocked |-> TRUE]))
                      EXCEPT !.perr = result[t].err])
    /\ UNCHANGED <<webCfgVars, flagVars, cacheVars, clientVars, whist, now>>

HandleConfigPassword(t, reqs) ==
    \/ \E req \in reqs : HandlePasswordCheck(t, req)
    \/ HandlePasswordSetResult(t)
    \/ HandlePasswordPersist(t)
    \/ HandlePasswordPersisted(t)
    \/ HandlePasswordUnlockResult(t)
    \/ HandlePasswordRotate(t)
    \/ HandlePasswordRotated(t)
    \/ HandlePasswordSave(t)
    \/ HandlePasswordSaved(t)

\* The steps inside the configStore operations that a handler has called
StoreInner(t) ==
    /\ \/ SetPasswordTx(t)
       \/ SetPasswordMem(t)
       \/ UnlockLoadSalt(t)
       \/ UnlockVerify(t)
       \/ UnlockMem(t)
       \/ UpdatePasswordTx(t)
       \/ UpdatePasswordMem(t)
       \/ SaveConfigExec(t)
       \/ LoadConfigQuery(t)
       \/ LoadConfigDecrypt(t)
    /\ UNCHANGED webVars

\* newWebServer(httpClient, cfg, token) with no ConfigSecret: a new process
\* over the same database file
StartWebServer(c) ==
    /\ \A t \in Procs : wpc[t] = "idle"
    /\ Restart
    /\ cfg' = StartConfig(c)
    /\ configMu' = 0
    /\ appHasPassword' = hasPassword'
    /\ configUnlocked' = unlocked'
    /\ pageCache' = EmptyPageCache
    /\ detailCache' = EmptyDetailCache
    /\ anyClient' = None
    /\ notionClient' = None
    /\ whist' = HistAt(cfg')
    /\ UNCHANGED <<reqVars, now>>

\* newWebServer with a ConfigSecret that is not blank, run by t before any
\* request is served: the store is opened and the webServer is built; st0 is
\* history, the store as it was opened. A process whose newWebServer has
\* returned an error ("exited") serves nothing until it is started again
NewWebServerOpen(t, c, secret) ==
    /\ TrimSpace(secret) # << >>
    /\ \A u \in Procs : wpc[u] \in {"idle", "exited"}
    /\ Restart
    /\ cfg' = StartConfig(c)
    /\ configMu' = 0
    /\ appHasPassword' = hasPassword'
    /\ configUnlocked' = unlocked'
    /\ pageCache' = EmptyPageCache
    /\ detailCache' = EmptyDetailCache
    /\ anyClient' = None
    /\ notionClient' = None
    /\ whist' = HistAt(cfg')
    /\ wpc' = [u \in Procs |-> IF u = t THEN "ns_secret" ELSE "idle"]
    /\ WSet(t, [IdleW EXCEPT !.op = "newWebServer", !.pw = TrimSpace(secret),
                             !.data = configs,
                             !.st0 = Some([metadata |-> metadata, key |-> None,
                                           hasPassword |-> hasPassword'])])
    /\ UNCHANGED <<resp, now>>

\* if app.hasPassword { store.Unlock(ctx, secret) } else { store.SetPassword(ctx, secret) }
NewWebServerSecret(t) ==
    /\ wpc[t] = "ns_secret"
    /\ IF appHasPassword
       THEN UnlockCheck(t, wframe[t].pw) /\ WGoto(t, "ns_unlock")
       ELSE SetPasswordCheck(t, wframe[t].pw) /\ WGoto(t, "ns_set")
    /\ UNCHANGED <<webCfgVars, flagVars, cacheVars, clientVars, wframe, resp, whist, now>>

\* err == nil: app.configUnlocked = true; else the error is logged
NewWebServerUnlocked(t) ==
    /\ wpc[t] = "ns_unlock"
    /\ pc[t] = "ret"
    /\ Return(t)
    /\ configUnlocked' = IF result[t].err = ErrNil THEN TRUE ELSE configUnlocked
    /\ WGoto(t, "ns_load")
    /\ WSet(t, [wframe[t] EXCEPT !.meta = Some(result[t].err)])
    /\ UNCHANGED <<webCfgVars, appHasPassword, cacheVars, clientVars, resp, whist, now>>

\* SetPassword returned: an error is logged; else app.hasPassword = true,
\* app.configUnlocked = true and store.SaveConfig(ctx, configToPayload(app.cfg))
NewWebServerSet(t) ==
    /\ wpc[t] = "ns_set"
    /\ pc[t] = "ret"
    /\ Return(t)
    /\ IF result[t].err # ErrNil
       THEN /\ WGoto(t, "ns_load")
            /\ UNCHANGED flagVars
       ELSE /\ appHasPassword' = TRUE
            /\ configUnlocked' = TRUE
            /\ WGoto(t, "ns_save")
    /\ WSet(t, [wframe[t] EXCEPT !.meta = Some(result[t].err)])
    /\ UNCHANGED <<webCfgVars, cacheVars, clientVars, resp, whist, now>>

NewWebServerSave(t) ==
    /\ wpc[t] = "ns_save"
    /\ SaveConfigCheck(t, configToPayload(cfg))
    /\ WGoto(t, "ns_saved")
    /\ UNCHANGED <<webCfgVars, flagVars, cacheVars, clientVars, wframe, resp, whist, now>>

\* the error of SaveConfig is logged
NewWebServerSaved(t) ==
    /\ wpc[t] = "ns_saved"
    /\ pc[t] = "ret"
    /\ Return(t)
    /\ WGoto(t, "ns_load")
    /\ WSet(t, [wframe[t] EXCEPT !.payload = Some(result[t].err)])
    /\ UNCHANGED <<webCfgVars, flagVars, cacheVars, clientVars, resp, whist, now>>

\* What newWebServer returns: status 200 for the app, 500 for an error;
\* before is the configuration of the command line, input the error of
\* Unlock or SetPassword, after the error of SaveConfig, entry the store as
\* it was opened and body the document applied
Started(t, status, applied, err) ==
    [Resp("newWebServer", status, applied)
        EXCEPT !.perr = err, !.before = whist.committed,
               !.input = wframe[t].meta, !.after = wframe[t].payload,
               !.entry = Some([st |-> wframe[t].st0[1], configs |-> wframe[t].data])]

\* if app.hasPassword && app.configUnlocked { store.LoadConfig(ctx) }
NewWebServerLoad(t) ==
    /\ wpc[t] = "ns_load"
    /\ IF appHasPassword /\ configUnlocked
       THEN /\ LoadConfigCheck(t)
            /\ WGoto(t, "ns_loaded")
            /\ UNCHANGED <<wframe, resp>>
       ELSE /\ Respond(t, Started(t, 200, None, ErrNil))
            /\ UNCHANGED storeSide
    /\ UNCHANGED <<webCfgVars, flagVars, cacheVars, clientVars, whist, now>>

\* err == nil: applyConfigPayload(app.cfg, payload); errConfigNotFound: the
\* app as it is; any other error: return nil, err
NewWebServerLoaded(t) ==
    /\ wpc[t] = "ns_loaded"
    /\ pc[t] = "ret"
    /\ Return(t)
    /\ IF result[t].err = ErrNil
       THEN /\ cfg' = applyConfigPayload(cfg, result[t].payload[1])
            /\ whist' = [whist EXCEPT !.committed = Some(cfg')]
            /\ Respond(t, [Started(t, 200, result[t].payload, ErrNil)
                              EXCEPT !.before = Some(cfg)])
       ELSE IF result[t].err = errConfigNotFound
       THEN /\ Respond(t, Started(t, 200, None, result[t].err))
            /\ UNCHANGED <<cfg, whist>>
       ELSE /\ wpc' = [wpc EXCEPT ![t] = "exited"]
            /\ wframe' = [wframe EXCEPT ![t] = IdleW]
            /\ resp' = [resp EXCEPT ![t] = Started(t, 500, None, result[t].err)]
            /\ UNCHANGED <<cfg, whist>>
    /\ UNCHANGED <<configMu, flagVars, cacheVars, clientVars, now>>

\* handleConfigState: the two flags of the webServer, read without a lock,
\* once the process serves
HandleConfigState(t) ==
    /\ wpc[t] = "idle"
    /\ \A u \in Procs : wframe[u].op # "newWebServer" /\ wpc[u] # "exited"
    /\ Respond(t, Resp("GET /api/config/state", 200, Some(StateBody)))
    /\ UNCHANGED <<webCfgVars, flagVars, cacheVars, clientVars, whist, now, storeSide>>

NewWebServer(t, clis, secrets) ==
    \/ \E c \in clis, secret \in secrets : NewWebServerOpen(t, c, secret)
    \/ NewWebServerSecret(t)
    \/ NewWebServerUnlocked(t)
    \/ NewWebServerSet(t)
    \/ NewWebServerSave(t)
    \/ NewWebServerSaved(t)
    \/ NewWebServerLoad(t)
    \/ NewWebServerLoaded(t)

----------------------------------------------------------------------------
(* getConversationPage / loadExportConversation *)

sTitle == <<"T">>

Meta(id, title) == [id |-> id, title |-> title]

\* The backing array of a slice: kind tells who allocated it, n which one
Arr(kind, n) == [kind |-> kind, n |-> n]

\* What the upstream API answers for a page: the listing, fetched with token;
\* arr is the backing array of Items, here the one json.Unmarshal allocated
PageData(token) ==
    [items |-> << Meta("c1", sTitle) >>, token |-> token, arr |-> Arr("fetched", 0)]

\* cloneConversationPage: copy := *src; copy.Items = append(nil, src.Items...),
\* the new backing array is a
cloneConversationPage(src, a) == [src EXCEPT !.arr = a]

\* the arrays of the clone kept in the slot of key k and of the clone returned
\* to request t
SlotArr(k) == Arr("slot", k[1])

CallerArr(t) == Arr("caller", t)

sMessage == <<"m">>

\* The backing arrays of the Messages of the exports that a response or the
\* slot of another id holds
LiveExportArrs(id) ==
    { resp[u].body[1].arr.n :
        u \in { v \in Procs : /\ resp[v].op = "loadExportConversation"
                              /\ resp[v].body # None } }
    \cup { detailCache[j][1].data.arr.n : j \in { i \in ConvIds : i # id /\ detailCache[i] # None } }

\* buildExportConversation allocates the Messages of the export: an array
\* that nothing else refers to
NewExportArr(id) ==
    Arr("export", CHOOSE n \in 1..(Cardinality(Procs) + Cardinality(ConvIds)) :
                     /\ n \notin LiveExportArrs(id)
                     /\ \A m \in 1..(n - 1) : m \in LiveExportArrs(id))

\* inv and ver are history: the invalidations done when the entry was stored
\* and the version of the snapshot it was fetched with
Entry(data, fetched, inv, ver) ==
    [data |-> data, fetched |-> fetched, inv |-> inv, ver |-> ver]

\* time.Since(entry.fetched) of the entry of a cache slot, if there is one
AgeOf(slot) == IF slot = None THEN None ELSE Some(now - slot[1].fetched)

\* time.Since(entry.fetched) < TTL
Fresh(entry, ttl) == now - entry.fetched < ttl

\* lookupConversationMeta skips the entries with time.Since(fetched) > TTL
MetaUsable(entry, ttl) == ~(now - entry.fetched > ttl)

CallResp(op, status, body) ==
    [Resp(op, status, body) EXCEPT !.done0 = whist.done, !.doneVer = whist.doneVer]

\* the answer of a read that went to the upstream API
FetchResp(t, status, body) ==
    [Resp(wframe[t].op, status, body) EXCEPT !.done0 = wframe[t].done0,
                                             !.force = wframe[t].force,
                                             !.seen = wframe[t].seen]

GetPageCheck(t, k, force) ==
    /\ wpc[t] = "idle"
    /\ IF ~force /\ pageCache[k] # None /\ Fresh(pageCache[k][1], conversationCacheTTL)
       THEN Respond(t, [CallResp("getConversationPage", 200,
                                 Some(cloneConversationPage(pageCache[k][1].data, CallerArr(t))))
                           EXCEPT !.entry = pageCache[k]])
       ELSE /\ WGoto(t, "gp_snap")
            /\ WSet(t, [IdleW EXCEPT !.op = "getConversationPage", !.key = Some(k),
                                     !.force = force, !.done0 = whist.done,
                                     !.seen = AgeOf(pageCache[k])])
            /\ UNCHANGED resp
    /\ UNCHANGED <<webCfgVars, flagVars, cacheVars, clientVars, whist, now, storeSide>>

\* cfg := s.configSnapshot(); the token must not be blank
GetPageSnapshot(t) ==
    /\ wpc[t] = "gp_snap"
    /\ configMuFree(configMu)
    /\ IF TrimSpace(cfg.Token) = << >>
       THEN Respond(t, FetchResp(t, 500, None))
       ELSE /\ WGoto(t, "gp_fetch")
            /\ WSet(t, [wframe[t] EXCEPT !.snap = Some(cfg), !.ver = whist.ver])
            /\ UNCHANGED resp
    /\ UNCHANGED <<webCfgVars, flagVars, cacheVars, clientVars, whist, now, storeSide>>

\* fetchConversationPage(ctx, s.httpClient, cfg, token, offset, limit)
GetPageFetch(t) ==
    /\ wpc[t] = "gp_fetch"
    /\ \E ok \in BOOLEAN :
          IF ok
          THEN /\ WGoto(t, "gp_store")
               /\ WSet(t, [wframe[t] EXCEPT !.data = Some(PageData(TrimSpace(wframe[t].snap[1].Token)))])
               /\ UNCHANGED resp
          ELSE Respond(t, FetchResp(t, 500, None))
    /\ UNCHANGED <<webCfgVars, flagVars, cacheVars, clientVars, whist, now, storeSide>>

\* cloned := cloneConversationPage(page); s.pageCache[key] =
\* conversationPageCacheEntry{data: cloneConversationPage(page), fetched:
\* time.Now()}; return cloned
GetPageStore(t) ==
    /\ wpc[t] = "gp_store"
    /\ pageCache' = [pageCache EXCEPT ![wframe[t].key[1]] =
                        Some(Entry(cloneConversationPage(wframe[t].data[1], SlotArr(wframe[t].key[1])),
                                   now, whist.pageInv, wframe[t].ver))]
    /\ Respond(t, FetchResp(t, 200, Some(cloneConversationPage(wframe[t].data[1], CallerArr(t)))))
    /\ UNCHANGED <<webCfgVars, flagVars, detailCache, clientVars, whist, now, storeSide>>

GetConversationPage(t) ==
    \/ \E k \in PageKeys, force \in BOOLEAN : GetPageCheck(t, k, force)
    \/ GetPageSnapshot(t)
    \/ GetPageFetch(t)
    \/ GetPageStore(t)

\* force deletes the entry; without force a fresh entry is returned.
\* removed is history: the entry that the call deleted
LoadExportCheck(t, id, force) ==
    /\ wpc[t] = "idle"
    /\ IF force
       THEN /\ detailCache' = [detailCache EXCEPT ![id] = None]
            /\ WGoto(t, "le_snap")
            /\ WSet(t, [IdleW EXCEPT !.op = "loadExportConversation", !.key = Some(id),
                                     !.force = force, !.done0 = whist.done,
                                     !.removed = detailCache[id]])
            /\ UNCHANGED resp
       ELSE IF detailCache[id] # None /\ Fresh(detailCache[id][1], detailCacheTTL)
       THEN /\ Respond(t, [CallResp("loadExportConversation", 200, Some(detailCache[id][1].data))
                              EXCEPT !.entry = detailCache[id]])
            /\ UNCHANGED detailCache
       ELSE /\ WGoto(t, "le_snap")
            /\ WSet(t, [IdleW EXCEPT !.op = "loadExportConversation", !.key = Some(id),
                                     !.force = force, !.done0 = whist.done,
                                     !.seen = AgeOf(detailCache[id])])
            /\ UNCHANGED <<resp, detailCache>>
    /\ UNCHANGED <<webCfgVars, flagVars, pageCache, clientVars, whist, now, storeSide>>

LoadExportSnapshot(t) ==
    /\ wpc[t] = "le_snap"
    /\ configMuFree(configMu)
    /\ IF TrimSpace(cfg.Token) = << >>
       THEN Respond(t, FetchResp(t, 500, None))
       ELSE /\ WGoto(t, "le_fetch")
            /\ WSet(t, [wframe[t] EXCEPT !.snap = Some(cfg), !.ver = whist.ver])
            /\ UNCHANGED resp
    /\ UNCHANGED <<webCfgVars, flagVars, cacheVars, clientVars, whist, now, storeSide>>

\* fetchConversationDetail; the detail may come without a title
LoadExportFetch(t) ==
    /\ wpc[t] = "le_fetch"
    /\ \E ok \in BOOLEAN, title \in {<< >>, sTitle} :
          IF ok
          THEN /\ WGoto(t, IF TrimSpace(title) = << >> THEN "le_meta" ELSE "le_build")
               /\ WSet(t, [wframe[t] EXCEPT !.meta = Some(Meta(wframe[t].key[1], title))])
               /\ UNCHANGED resp
          ELSE Respond(t, FetchResp(t, 500, None))
    /\ UNCHANGED <<webCfgVars, flagVars, cacheVars, clientVars, whist, now, storeSide>>

\* lookupConversationMeta: the page entries that are searched for the id
MetaSources(id) ==
    { k \in PageKeys :
         /\ pageCache[k] # None
         /\ MetaUsable(pageCache[k][1], conversationCacheTTL)
         /\ \E i \in 1..Len(pageCache[k][1].data.items) : pageCache[k][1].data.items[i].id = id }

MetaFrom(k, id) ==
    LET items == pageCache[k][1].data.items IN
    items[CHOOSE i \in 1..Len(items) : items[i].id = id]

\* if strings.TrimSpace(meta.Title) == "" { lookupConversationMeta(id) };
\* data.from is history: the page entry the title was taken from
LoadExportMeta(t) ==
    /\ wpc[t] = "le_meta"
    /\ LET id == wframe[t].key[1] IN
       IF MetaSources(id) = {}
       THEN WSet(t, [wframe[t] EXCEPT !.data = Some([from |-> None, age |-> -1])])
       ELSE \E k \in MetaSources(id) :
               WSet(t, [wframe[t] EXCEPT !.meta = Some(MetaFrom(k, id)),
                                         !.data = Some([from |-> pageCache[k],
                                                        age |-> now - pageCache[k][1].fetched])])
    /\ WGoto(t, "le_store")
    /\ UNCHANGED <<webCfgVars, flagVars, cacheVars, clientVars, resp, whist, now, storeSide>>

\* the title came with the detail
LoadExportBuild(t) ==
    /\ wpc[t] = "le_build"
    /\ WSet(t, [wframe[t] EXCEPT !.data = Some([from |-> None, age |-> -1])])
    /\ WGoto(t, "le_store")
    /\ UNCHANGED <<webCfgVars, flagVars, cacheVars, clientVars, resp, whist, now, storeSide>>

\* export := buildExportConversation(meta, detail); s.detailCache[id] = ...
LoadExportStore(t) ==
    /\ wpc[t] = "le_store"
    /\ LET export == [meta |-> wframe[t].meta[1], token |-> TrimSpace(wframe[t].snap[1].Token),
                      messages |-> << sMessage >>, arr |-> NewExportArr(wframe[t].key[1])] IN
       /\ detailCache' = [detailCache EXCEPT ![wframe[t].key[1]] =
                             Some(Entry(export, now, whist.detailInv, wframe[t].ver))]
       /\ Respond(t, [FetchResp(t, 200, Some(export)) EXCEPT !.entry = wframe[t].data])
    /\ UNCHANGED <<webCfgVars, flagVars, pageCache, clientVars, whist, now, storeSide>>

LoadExportConversation(t) ==
    \/ \E id \in ConvIds, force \in BOOLEAN : LoadExportCheck(t, id, force)
    \/ LoadExportSnapshot(t)
    \/ LoadExportFetch(t)
    \/ LoadExportMeta(t)
    \/ LoadExportBuild(t)
    \/ LoadExportStore(t)

\* removeDetailCache: delete(s.detailCache, id); an id that was never loaded
\* has no entry
removeDetailCache(cache, id) ==
    [k \in DOMAIN cache |-> IF k = id THEN None ELSE cache[k]]

\* The ids of a delete request: "" stands for an id that is blank once trimmed
NoId == ""

DeleteRequests ==
    { << >>, <<NoId>>, <<"c1">>, <<"c1", "c2">>, <<NoId, "c1", "c1">>, <<"c2", "c1">> }

\* handleDelete up to the loop: the snapshot, the token, the ids of the body;
\* data is the slice deleted, inv0 the invalidations counted so far
HandleDeleteCheck(t, ids) ==
    /\ wpc[t] = "idle"
    /\ configMuFree(configMu)
    /\ IF TrimSpace(cfg.Token) = << >>
       THEN /\ Respond(t, ErrResp("POST /api/conversations/delete", 400, causeState))
            /\ UNCHANGED whist
       ELSE IF Len(ids) = 0
       THEN /\ Respond(t, ErrResp("POST /api/conversations/delete", 400, causeValidation))
            /\ UNCHANGED whist
       ELSE /\ whist.started < MaxUpdates
            /\ whist' = [whist EXCEPT !.started = @ + 1]
            /\ WGoto(t, "hd_loop")
            /\ WSet(t, [IdleW EXCEPT !.op = "POST /api/conversations/delete",
                                     !.input = Some(ids), !.i = 1, !.snap = Some(cfg),
                                     !.data = Some(<< >>),
                                     !.inv0 = Some([page |-> whist.pageInv,
                                                    detail |-> whist.detailInv])])
            /\ UNCHANGED resp
    /\ UNCHANGED <<webCfgVars, flagVars, cacheVars, clientVars, now, storeSide>>

\* the ids of the request before position i: seen holds those that are not blank
SeenBefore(ids, i) == { ids[j] : j \in 1..(i - 1) } \ {NoId}

\* One turn of the loop: a blank or repeated id is skipped;
\* deleteConversation(ctx, s.httpClient, cfg, token, id) fails (502, return)
\* or deletes the conversation upstream. After the last id: nothing deleted
\* is a 400, else invalidateConversationCache() and the answer
HandleDeleteNext(t) ==
    /\ wpc[t] = "hd_loop"
    /\ LET ids == wframe[t].input[1]
           i == wframe[t].i
           deleted == wframe[t].data[1] IN
       IF i > Len(ids)
       THEN IF deleted = << >>
            THEN /\ Respond(t, ErrResp(wframe[t].op, 400, causeValidation))
                 /\ UNCHANGED <<pageCache, whist>>
            ELSE /\ pageCache' = invalidateConversationCache(pageCache)
                 /\ whist' = [whist EXCEPT !.pageInv = @ + 1]
                 /\ Respond(t, Resp(wframe[t].op, 200, Some(deleted)))
       ELSE IF ids[i] = NoId \/ ids[i] \in SeenBefore(ids, i)
       THEN /\ WSet(t, [wframe[t] EXCEPT !.i = i + 1])
            /\ UNCHANGED <<wpc, resp, pageCache, whist>>
       ELSE \E ok \in BOOLEAN :
               IF ok
               THEN /\ WGoto(t, "hd_remove")
                    /\ UNCHANGED <<wframe, resp, pageCache, whist>>
               ELSE /\ Respond(t, [ErrResp(wframe[t].op, 502, "upstream")
                                      EXCEPT !.body = Some(deleted)])
                    /\ UNCHANGED <<pageCache, whist>>
    /\ UNCHANGED <<webCfgVars, flagVars, detailCache, clientVars, now, storeSide>>

\* s.removeDetailCache(id); deleted = append(deleted, id)
HandleDeleteRemove(t) ==
    /\ wpc[t] = "hd_remove"
    /\ LET id == wframe[t].input[1][wframe[t].i] IN
       /\ detailCache' = removeDetailCache(detailCache, id)
       /\ WSet(t, [wframe[t] EXCEPT !.i = @ + 1, !.data = Some(Append(@[1], id))])
    /\ whist' = [whist EXCEPT !.detailInv = @ + 1]
    /\ WGoto(t, "hd_loop")
    /\ UNCHANGED <<webCfgVars, flagVars, pageCache, clientVars, resp, now, storeSide>>

HandleDelete(t) ==
    \/ \E ids \in DeleteRequests : HandleDeleteCheck(t, ids)
    \/ HandleDeleteNext(t)
    \/ HandleDeleteRemove(t)

\* The caller of request t writes into the value it was given: the title of
\* the first item of a page, the text of the first message of an export.
\* Every value whose slice has the same backing array changes with it.
sWritten == <<"x">>

WriteInto(v) ==
    IF "messages" \in DOMAIN v
    THEN [v EXCEPT !.messages[1] = sWritten]
    ELSE [v EXCEPT !.items[1].title = sWritten]

WriteThrough(slot, a) ==
    IF slot # None /\ slot[1].data.arr = a
    THEN Some([slot[1] EXCEPT !.data = WriteInto(@)])
    ELSE slot

MutateReturned(t) ==
    /\ wpc[t] = "done"
    /\ resp[t].op \in {"getConversationPage", "loadExportConversation"}
    /\ resp[t].body # None
    /\ LET a == resp[t].body[1].arr IN
       /\ resp' = [u \in Procs |->
                     IF resp[u].op = resp[t].op /\ resp[u].body # None /\ resp[u].body[1].arr = a
                     THEN [resp[u] EXCEPT !.body = Some(WriteInto(@[1]))]
                     ELSE resp[u]]
       /\ pageCache' = [k \in PageKeys |-> WriteThrough(pageCache[k], a)]
       /\ detailCache' = [id \in ConvIds |-> WriteThrough(detailCache[id], a)]
    /\ resp' # resp
    /\ UNCHANGED <<webCfgVars, flagVars, clientVars, wpc, wframe, whist, now, storeSide>>

\* The clock moves to a later instant
Tick ==
    /\ \E later \in Instants : later > now /\ now' = later
    /\ UNCHANGED <<webCfgVars, flagVars, cacheVars, clientVars, reqVars, whist, storeSide>>

----------------------------------------------------------------------------
(* resolveAnytypeClient / resolveNotionClient *)

\* The instances that a field of the server or a caller still refers to
LiveClients ==
    { c[1].id : c \in { x \in {anyClient, notionClient} \cup { resp[t].client : t \in Procs } :
                           x # None } }

\* &anytypeClient{...} / &notionClient{...}: a new instance; ver is history,
\* the version of the snapshot it was built from, and id tells the instance
\* from those that are still referred to
NewClient(token, ver) ==
    [token |-> token, ver |-> ver,
     id |-> CHOOSE n \in 0..(Cardinality(Procs) + 2) :
               n \notin LiveClients /\ \A m \in 0..(n - 1) : m \in LiveClients]

\* a resolve that builds a client whatever the field holds
UseCachedNever(client) == FALSE

\* if s.anyClient != nil { return s.anyClient, nil }
UseCached(client) == client # None

\* epoch is history: the resets of the platform counted when the call answered
ResolveResp(op, status, client) ==
    [Resp(op, status, None)
        EXCEPT !.client = client, !.doneVer = whist.doneVer,
               !.epoch = IF op = "resolveAnytypeClient" THEN whist.anyResets ELSE whist.resets]

\* cfg := s.configSnapshot()
ResolveAnytypeSnapshot(t) ==
    /\ wpc[t] = "idle"
    /\ configMuFree(configMu)
    /\ WGoto(t, "ra_build")
    /\ WSet(t, [IdleW EXCEPT !.op = "resolveAnytypeClient", !.snap = Some(cfg), !.ver = whist.ver,
                             !.doneVer0 = whist.doneVer])
    /\ UNCHANGED <<webCfgVars, flagVars, cacheVars, clientVars, resp, whist, now, storeSide>>

\* under s.anyClientMu: the cached client, or newAnytypeClient(cfg)
ResolveAnytypeBuild(t) ==
    /\ wpc[t] = "ra_build"
    /\ IF UseCached(anyClient)
       THEN Respond(t, ResolveResp("resolveAnytypeClient", 200, anyClient)) /\ UNCHANGED anyClient
       ELSE IF wframe[t].snap[1].AnytypeToken = << >>
       THEN Respond(t, ResolveResp("resolveAnytypeClient", 500, None)) /\ UNCHANGED anyClient
       ELSE LET client == Some(NewClient(wframe[t].snap[1].AnytypeToken, wframe[t].ver)) IN
            /\ anyClient' = client
            /\ Respond(t, ResolveResp("resolveAnytypeClient", 200, client))
    /\ UNCHANGED <<webCfgVars, flagVars, cacheVars, notionClient, whist, now, storeSide>>

ResolveNotionSnapshot(t) ==
    /\ wpc[t] = "idle"
    /\ configMuFree(configMu)
    /\ WGoto(t, "rn_build")
    /\ WSet(t, [IdleW EXCEPT !.op = "resolveNotionClient", !.snap = Some(cfg), !.ver = whist.ver,
                             !.doneVer0 = whist.doneVer])
    /\ UNCHANGED <<webCfgVars, flagVars, cacheVars, clientVars, resp, whist, now, storeSide>>

\* under s.notionClientMu: the cached client, or newNotionClient(cfg)
ResolveNotionBuild(t) ==
    /\ wpc[t] = "rn_build"
    /\ IF UseCached(notionClient)
       THEN Respond(t, ResolveResp("resolveNotionClient", 200, notionClient)) /\ UNCHANGED notionClient
       ELSE IF TrimSpace(wframe[t].snap[1].NotionToken) = << >>
       THEN Respond(t, ResolveResp("resolveNotionClient", 500, None)) /\ UNCHANGED notionClient
       ELSE LET client == Some(NewClient(TrimSpace(wframe[t].snap[1].NotionToken), wframe[t].ver)) IN
            /\ notionClient' = client
            /\ Respond(t, ResolveResp("resolveNotionClient", 200, client))
    /\ UNCHANGED <<webCfgVars, flagVars, cacheVars, anyClient, whist, now, storeSide>>

ResolveClient(t) ==
    \/ ResolveAnytypeSnapshot(t)
    \/ ResolveAnytypeBuild(t)
    \/ ResolveNotionSnapshot(t)
    \/ ResolveNotionBuild(t)

----------------------------------------------------------------------------
(* Specifications *)

InitStore ==
    /\ metadata = EmptyMeta
    /\ configs = None
    /\ key = None
    /\ hasPassword = detectPassword(EmptyMeta)
    /\ unlocked = OpensUnlocked(detectPassword(EmptyMeta))
    /\ pc = [t \in Procs |-> "idle"]
    /\ frame = [t \in Procs |-> IdleFrame]
    /\ pre = [t \in Procs |-> NoPre]
    /\ result = [t \in Procs |-> NoResult]
    /\ verified = FALSE
    /\ setOk = 0
    /\ setPw = None
    /\ setKey = None
    /\ rotated = FALSE
    /\ savedDoc = None
    /\ staleBlob = FALSE
    /\ savedHere = FALSE

\* Init(path): ensureSchema over the file, no transaction open
InitItems(files) ==
    /\ config_items \in files
    /\ itemsCommitted = config_items
    /\ itemsRet = ItemsRet("Init", ErrNil, None, None, None, -1)
    /\ itemsTx = NoTx
    /\ itemsRd = "idle"

\* newWebServer over a new file, with no ConfigSecret
InitWeb(clis) ==
    /\ cfg \in { StartConfig(c) : c \in clis }
    /\ configMu = 0
    /\ appHasPassword = hasPassword
    /\ configUnlocked = unlocked
    /\ pageCache = EmptyPageCache
    /\ detailCache = EmptyDetailCache
    /\ anyClient = None
    /\ notionClient = None
    /\ now = 0
    /\ wpc = [t \in Procs |-> "idle"]
    /\ wframe = [t \in Procs |-> IdleW]
    /\ resp = [t \in Procs |-> NoResp]
    /\ whist = HistAt(cfg)

Init == InitStore /\ InitItems({DefaultItems}) /\ InitWeb({CliDefault})

\* The steps of each operation of the configStore, for request t
SetPasswordStep(t, pws) ==
    \/ \E p \in pws : SetPasswordCheck(t, p)
    \/ SetPasswordTx(t)
    \/ SetPasswordMem(t)

UnlockStep(t, pws) ==
    \/ \E p \in pws : UnlockCheck(t, p)
    \/ UnlockLoadSalt(t)
    \/ UnlockVerify(t)
    \/ UnlockMem(t)

UpdatePasswordStep(t, pws) ==
    \/ \E p \in pws : UpdatePasswordCheck(t, p)
    \/ UpdatePasswordTx(t)
    \/ UpdatePasswordMem(t)

SaveConfigStep(t, docs) ==
    \/ \E d \in docs : SaveConfigCheck(t, d)
    \/ SaveConfigExec(t)

LoadConfigStep(t) ==
    \/ LoadConfigCheck(t)
    \/ LoadConfigQuery(t)
    \/ LoadConfigDecrypt(t)

StoreStep(t, pws, docs) ==
    \/ SetPasswordStep(t, pws)
    \/ UnlockStep(t, pws)
    \/ UpdatePasswordStep(t, pws)
    \/ SaveConfigStep(t, docs)
    \/ LoadConfigStep(t)
    \/ Return(t)

\* Requests served one at a time
Next == (StoreStep(1, Passwords, Docs) \/ Restart) /\ UNCHANGED webVars

Spec == Init /\ [][Next]_vars

\* A second handler calls SetPassword while the first serves any request:
\* the store has no lock, so the steps of the two interleave.
RacePasswords == {pwA, pwB, pwShort}

RaceDocs == { Doc(<<"a">>, 20) }

RaceNext ==
    /\ \/ StoreStep(1, RacePasswords, RaceDocs)
       \/ SetPasswordStep(2, RacePasswords)
       \/ Return(2)
       \/ Restart
    /\ UNCHANGED webVars

SpecRace == Init /\ [][RaceNext]_vars

\* A second handler calls UpdatePassword while the first serves any request
StoreConcNext ==
    /\ \/ StoreStep(1, {pwA}, RaceDocs)
       \/ UpdatePasswordStep(2, {pwB})
       \/ Return(2)
    /\ UNCHANGED webVars

SpecStoreConc == Init /\ [][StoreConcNext]_vars

\* The item store
ItemsNext == (ItemsSaveConfig \/ ItemsHasConfig \/ ItemsLoadConfig) /\ UNCHANGED webVars

ItemsInit == InitStore /\ InitItems(ItemFiles) /\ InitWeb({CliDefault})

SpecItems == ItemsInit /\ [][ItemsNext]_vars

\* The configuration endpoints, one request at a time
WebPasswords == {pwA, pwB}

WebPasswordRequests ==
    { PasswordRequest(pwA, << >>, << >>), PasswordRequest(<< >>, pwA, pwB),
      PasswordRequest(<< >>, pwB, pwA) }

UpdateOutOfRange ==
    [NoUpdate EXCEPT !["page_size"] = Some(0),
                     !["max_conversations"] = Some(-3),
                     !["initial_offset"] = Some(-1),
                     !["order"] = Some(<<" ", "C", "r", "e", "a", "t", "e", "d">>),
                     !["target"] = Some(<<"b">>),
                     !["notion_parent_type"] = Some(<<"D", "a", "t", "a", "b", "a", "s", "e">>)]

WebUpdates == { NoUpdate, UpdateOutOfRange, Update2("page_size", 500, "order", <<"b">>) }

WebNext ==
    \/ HandleConfigGet(1)
    \/ HandleConfigPost(1, WebUpdates)
    \/ HandleConfigUnlock(1, WebPasswords)
    \/ HandleConfigPassword(1, WebPasswordRequests)
    \/ StoreInner(1)
    \/ Finish(1)
    \/ \E c \in {CliDefault, CliRaw} : StartWebServer(c)

WebInit == InitStore /\ InitItems({DefaultItems}) /\ InitWeb({CliDefault, CliRaw})

SpecWeb == WebInit /\ [][WebNext]_vars

\* Unlock over a database file whose password metadata is intact or damaged:
\* the password pwA was set with salt 1 and a document saved under its key
IntactMeta == [key_salt |-> Some(1), key_hash |-> Some(sha256Sum(deriveKey(pwA, 1)))]

DamagedMetas ==
    { [IntactMeta EXCEPT !.key_hash = None],
      [IntactMeta EXCEPT !.key_hash = Some(EmptyHash)],
      [IntactMeta EXCEPT !.key_hash = Some(sha256Sum(deriveKey(pwShort, 1)))],
      [IntactMeta EXCEPT !.key_salt = None],
      [IntactMeta EXCEPT !.key_salt = Some(EmptySalt)],
      [IntactMeta EXCEPT !.key_salt = Some(2)] }

IntactDoc == configToPayload(StartConfig(CliRaw))

\* newConfigStore and newWebServer(cli) over such a file
OverFile(metas, clis) ==
    /\ metadata \in metas
    /\ configs = Some(encrypt(Some(deriveKey(pwA, 1)), 1, jsonMarshal(IntactDoc)))
    /\ key = None
    /\ hasPassword = detectPassword(metadata)
    /\ unlocked = OpensUnlocked(detectPassword(metadata))
    /\ pc = [t \in Procs |-> "idle"]
    /\ frame = [t \in Procs |-> IdleFrame]
    /\ pre = [t \in Procs |-> NoPre]
    /\ result = [t \in Procs |-> NoResult]
    /\ verified = FALSE
    /\ setOk = 1
    /\ setPw = Some(pwA)
    /\ setKey = Some([salt |-> 1, pw |-> pwA])
    /\ rotated = FALSE
    /\ savedDoc = Some(IntactDoc)
    /\ staleBlob = FALSE
    /\ savedHere = FALSE
    /\ InitItems({DefaultItems})
    /\ InitWeb(clis)

FileInit == OverFile({IntactMeta} \cup DamagedMetas, {CliDefault})

\* the steps of Unlock and LoadConfig that handleConfigUnlock waits for
UnlockInner(t) ==
    /\ \/ UnlockLoadSalt(t)
       \/ UnlockVerify(t)
       \/ UnlockMem(t)
       \/ LoadConfigQuery(t)
       \/ LoadConfigDecrypt(t)
    /\ UNCHANGED webVars

FileNext ==
    \/ HandleConfigUnlock(1, WebPasswords)
    \/ HandleConfigGet(1)
    \/ UnlockInner(1)
    \/ Finish(1)

SpecFile == FileInit /\ [][FileNext]_vars

\* newWebServer with ConfigSecret over the intact file: the store is unlocked
\* at start and the persisted document applied; two requests update the
\* configuration
SecretInit ==
    /\ metadata = IntactMeta
    /\ configs = Some(encrypt(Some(deriveKey(pwA, 1)), 1, jsonMarshal(IntactDoc)))
    /\ key = Some(deriveKey(pwA, 1))
    /\ hasPassword = TRUE
    /\ unlocked = TRUE
    /\ pc = [t \in Procs |-> "idle"]
    /\ frame = [t \in Procs |-> IdleFrame]
    /\ pre = [t \in Procs |-> NoPre]
    /\ result = [t \in Procs |-> NoResult]
    /\ verified = TRUE
    /\ setOk = 1
    /\ setPw = Some(pwA)
    /\ setKey = Some([salt |-> 1, pw |-> pwA])
    /\ rotated = FALSE
    /\ savedDoc = Some(IntactDoc)
    /\ staleBlob = FALSE
    /\ savedHere = FALSE
    /\ InitItems({DefaultItems})
    /\ InitWeb({CliRaw})
    /\ cfg = applyConfigPayload(StartConfig(CliRaw), IntactDoc)

\* A locked server started with another token than the persisted document
\* has: pages, exports and clients are served while it is locked and after
\* the unlock
CliOther == [CliRaw EXCEPT !.Token = <<"b">>, !.AnytypeToken = <<"b">>]

UnlockCacheNext ==
    \/ HandleConfigUnlock(1, {pwA})
    \/ UnlockInner(1)
    \/ GetConversationPage(2)
    \/ LoadExportConversation(2)
    \/ ResolveClient(2)
    \/ \E t \in Procs : Finish(t)

UnlockCacheInit == OverFile({IntactMeta}, {CliOther})

SpecUnlockCache == UnlockCacheInit /\ [][UnlockCacheNext]_vars

\* Concurrent requests on a server without password: updates, reads of the
\* snapshot and export clients
ConcUpdates ==
    { Update2("page_size", 50, "anytype_token", <<"b">>),
      Update2("page_size", 70, "notion_token", <<"c">>) }

ConcNext ==
    \E t \in Procs :
       \/ HandleConfigPost(t, ConcUpdates)
       \/ HandleConfigGet(t)
       \/ ResolveClient(t)
       \/ Finish(t)

ConcInit == InitStore /\ InitItems({DefaultItems}) /\ InitWeb({CliRaw})

SpecConc == ConcInit /\ [][ConcNext]_vars

\* Two requests update the configuration of the server started with the secret
SecretNext ==
    \E t \in Procs :
       \/ HandleConfigPost(t, ConcUpdates)
       \/ StoreInner(t)
       \/ Finish(t)

SpecSecret == SecretInit /\ [][SecretNext]_vars

\* The caches: reads of pages and details, updates, and the clock
CacheUpdates == { Update1("token", <<"b">>) }

CacheNext ==
    \/ GetConversationPage(2)
    \/ LoadExportConversation(2)
    \/ HandleConfigPost(1, CacheUpdates)
    \/ \E t \in Procs : Finish(t)
    \/ Tick

CacheInit == InitStore /\ InitItems({DefaultItems}) /\ InitWeb({CliRaw})

SpecCache == CacheInit /\ [][CacheNext]_vars

\* The five locks: an update against the reads of the caches, of the snapshot
\* and of the export clients, at one instant
LocksNext ==
    \/ HandleConfigPost(1, CacheUpdates)
    \/ GetConversationPage(2)
    \/ LoadExportConversation(2)
    \/ ResolveClient(2)
    \/ \E t \in Procs : Finish(t)

LocksInit == InitStore /\ InitItems({DefaultItems}) /\ InitWeb({CliRaw})

SpecLocks == LocksInit /\ [][LocksNext]_vars

\* Starts with a ConfigSecret, over a new database and then over what the
\* process before has left, with the password requests in between
StartSecrets == {pwA, pwB, pwShort}

StartRequests == { PasswordRequest(pwA, << >>, << >>), PasswordRequest(<< >>, pwA, pwB) }

StartNext ==
    \/ NewWebServer(1, {CliRaw, CliOther}, StartSecrets)
    \/ HandleConfigUnlock(1, WebPasswords)
    \/ HandleConfigPassword(1, StartRequests)
    \/ StoreInner(1)
    \/ HandleConfigState(2)
    \/ \E t \in Procs : Finish(t)

StartInit == InitStore /\ InitItems({DefaultItems}) /\ InitWeb({CliRaw})

SpecStart == StartInit /\ [][StartNext]_vars

\* A delete request against the reads that fill the two caches
DeleteNext ==
    \/ HandleDelete(1)
    \/ GetConversationPage(2)
    \/ LoadExportConversation(2)
    \/ \E t \in Procs : Finish(t)

DeleteInit == InitStore /\ InitItems({DefaultItems}) /\ InitWeb({CliRaw})

SpecDelete == DeleteInit /\ [][DeleteNext]_vars

\* Callers that write into the pages and exports they were given
AliasNext ==
    \E t \in Procs :
       \/ GetConversationPage(t)
       \/ LoadExportConversation(t)
       \/ MutateReturned(t)
       \/ Finish(t)

AliasInit == InitStore /\ InitItems({DefaultItems}) /\ InitWeb({CliRaw})

SpecAlias == AliasInit /\ [][AliasNext]_vars

\* An update against a request that sets the password: both persist a
\* document built from the live configuration
PersistRequests == { PasswordRequest(pwA, << >>, << >>) }

PersistUpdates == { Update2("page_size", 50, "anytype_token", <<"b">>) }

PersistNext ==
    \/ HandleConfigPost(1, PersistUpdates)
    \/ \E req \in PersistRequests : HandlePasswordCheck(2, req)
    \/ HandlePasswordSetResult(2)
    \/ HandlePasswordPersist(2)
    \/ HandlePasswordPersisted(2)
    \/ \E t \in Procs : StoreInner(t)
    \/ \E t \in Procs : Finish(t)

PersistInit == InitStore /\ InitItems({DefaultItems}) /\ InitWeb({CliRaw})

SpecPersist == PersistInit /\ [][PersistNext]_vars


----------------------------------------------------------------------------
(* Properties *)

\* Request t has returned from operation op and its caller has yet to resume
At(t, op) == pc[t] = "ret" /\ frame[t].op = op

Err(t) == result[t].err

\* C1: after UpdatePassword returns nil the document persisted under the old
\* key is still readable, and no committed state holds a configs row sealed
\* under a key other than the one whose hash is in metadata.
C1_RotationKeepsDocumentReadable ==
    /\ (configs # None /\ metadata.key_hash # None)
          => sha256Sum(configs[1].key[1]) = metadata.key_hash[1]
    /\ (At(1, "UpdatePassword") /\ Err(1) = ErrNil /\ configs # None)
          => decryptOk(key, configs[1])

\* C2 as stated: Unlocked() is true only after this process completed a
\* SetPassword or a matching Unlock; opening a store never yields an unlocked
\* store.
C2_UnlockedOnlyAfterVerification == unlocked => verified

\* C2 amended: a store that is unlocked without this process having completed
\* a SetPassword or a matching Unlock has no password and holds no key (it
\* was opened on a file without key_salt); a key is held only after such a
\* verification.
C2_UnverifiedUnlockedHasNoPassword ==
    /\ (unlocked /\ ~verified) => (~hasPassword /\ key = None)
    /\ key # None => verified

C2_Witness == At(1, "Unlock") /\ Err(1) = ErrNil /\ ~pre[1].unlocked /\ unlocked /\ verified

\* What Unlock derives from password p and the stored salt differs from the
\* stored hash
WrongPassword(p, meta) ==
    /\ meta.key_salt # None
    /\ meta.key_hash # None
    /\ sha256Sum(deriveKey(TrimSpace(p), meta.key_salt[1])) # meta.key_hash[1]

\* C3: Unlock with a password whose derived key hash differs from the stored
\* key_hash returns errInvalidPassword (a failed read of metadata returns the
\* read error) and leaves key, unlocked, hasPassword and the metadata rows as
\* they were, whether the store was locked or unlocked.
C3_WrongPasswordRejected ==
    (At(1, "Unlock") /\ pre[1].hasPassword /\ WrongPassword(frame[1].pw, pre[1].metadata))
        => /\ Snapshot = pre[1]
           /\ Err(1) = IF frame[1].io = -1 THEN errInvalidPassword ELSE errDB

C3_Witness ==
    /\ At(1, "Unlock") /\ WrongPassword(frame[1].pw, pre[1].metadata)
    /\ Err(1) = errInvalidPassword /\ pre[1].unlocked /\ pre[1].key # None
    /\ TrimSpace(frame[1].pw) # << >>

\* C4 as stated: every password of at least 8 bytes is accepted by
\* SetPassword on a password-less store (a failed transaction aside).
C4_EveryLongPasswordAccepted ==
    (At(1, "SetPassword") /\ ~pre[1].hasPassword /\ frame[1].io = -1
        /\ Len(frame[1].pw) >= minPasswordBytes)
        => Err(1) = ErrNil

\* C4 amended: for every password whose white-space-trimmed form has at least
\* 8 bytes, SetPassword on a password-less store succeeds unless its
\* transaction fails; a later Unlock with the same password (no rotation in
\* between, same process or a new one) succeeds unless a read fails and
\* installs the key SetPassword installed; LoadConfig then returns the
\* document saved (strings valid UTF-8) under that key.
C4_TrimmedPasswordSetThenUnlock ==
    /\ (At(1, "SetPassword") /\ ~pre[1].hasPassword /\ frame[1].io = -1
          /\ Len(TrimSpace(frame[1].pw)) >= minPasswordBytes)
          => (Err(1) = ErrNil /\ hasPassword /\ unlocked /\ key = setKey /\ key # None)
    /\ (At(1, "Unlock") /\ setPw = Some(frame[1].pw) /\ ~rotated /\ frame[1].io = -1)
          => (Err(1) = ErrNil /\ unlocked /\ key = setKey)
    /\ (At(1, "LoadConfig") /\ ~rotated /\ savedDoc # None /\ frame[1].io = -1
          /\ pre[1].unlocked /\ pre[1].hasPassword /\ ValidUtf8(savedDoc[1].token))
          => (Err(1) = ErrNil /\ result[1].payload = savedDoc /\ key = setKey)

\* SetPassword with a padded password, a restart, Unlock with the same bytes
C4_Witness ==
    /\ At(1, "Unlock") /\ setPw = Some(frame[1].pw) /\ ~rotated
    /\ frame[1].pw # TrimSpace(frame[1].pw)
    /\ ~pre[1].unlocked /\ Err(1) = ErrNil /\ savedDoc # None

\* C5: SetPassword returns nil only on a store without password and for a
\* password of at least 8 bytes; over all calls, interleaved or not, at most
\* one returns nil; a call that returns an error has changed neither the
\* tables nor key, hasPassword, unlocked.
C5_SetPasswordAtMostOnce ==
    /\ [](/\ setOk <= 1
          /\ \A t \in Procs :
               (At(t, "SetPassword") /\ Err(t) = ErrNil)
                  => /\ Len(frame[t].pw) >= minPasswordBytes
                     /\ Observed(t) => ~pre[t].hasPassword)
    /\ [][\A t \in Procs :
            (/\ frame'[t].op = "SetPassword"
             /\ pc'[t] # pc[t]
             /\ ~(pc'[t] = "ret" /\ result'[t].err = ErrNil)
             /\ ~(pc'[t] = "sp_mem"))
               => UNCHANGED storeVars]_vars

\* Two interleaved calls: one returned nil, the other lost on the PRIMARY KEY
C5_Witness ==
    /\ At(2, "SetPassword") /\ Err(2) = errDB /\ frame[2].io = -1
    /\ hasPassword /\ setOk = 1

TrimmedPasswords == { TrimSpace(p) : p \in Passwords }

\* C6: in every committed state metadata holds both key_salt and key_hash or
\* neither, and the hash is that of a key derived from the stored salt.
C6_MetadataRowsPaired ==
    /\ (metadata.key_salt = None) <=> (metadata.key_hash = None)
    /\ metadata.key_hash # None
          => \E p \in TrimmedPasswords :
                metadata.key_hash[1] = sha256Sum(deriveKey(p, metadata.key_salt[1]))

\* An UpdatePassword whose second upsert failed after the first had run
C6_Witness ==
    /\ At(1, "UpdatePassword") /\ frame[1].io = 2 /\ Err(1) = errDB
    /\ metadata.key_salt # None /\ metadata.key_salt[1] # frame[1].salt

StateErrors == {errStoreLocked, errPasswordNotSet}

\* C7: SaveConfig, LoadConfig and UpdatePassword on a store that is locked or
\* has no password return errStoreLocked or errPasswordNotSet and change
\* neither the tables nor key, hasPassword, unlocked.
C7_LockedStoreRefuses ==
    \A op \in {"SaveConfig", "LoadConfig", "UpdatePassword"} :
       (At(1, op) /\ (~pre[1].unlocked \/ ~pre[1].hasPassword))
          => (Err(1) \in StateErrors /\ Snapshot = pre[1])

C7_Witness ==
    At(1, "UpdatePassword") /\ ~pre[1].hasPassword /\ pre[1].unlocked
        /\ Err(1) = errStoreLocked

\* A LoadConfig on an unlocked store that follows a successful SaveConfig,
\* with no key replacement and no failed read in between
LoadAfterSave ==
    /\ At(1, "LoadConfig") /\ savedDoc # None /\ ~staleBlob /\ frame[1].io = -1
    /\ pre[1].unlocked /\ pre[1].hasPassword

\* C8 as stated: for every document d, LoadConfig after SaveConfig(d)
\* returns d.
C8_EveryDocumentRoundTrips ==
    LoadAfterSave => (Err(1) = ErrNil /\ result[1].payload = savedDoc)

\* C8 amended: for every document d whose strings are valid UTF-8,
\* LoadConfig after SaveConfig(d) returns d; a store opened on the file
\* afterwards has HasPassword() = true and Unlocked() = false and LoadConfig
\* returns errStoreLocked until an Unlock succeeds, after which it returns d.
C8_ValidDocumentRoundTrips ==
    /\ (LoadAfterSave /\ ValidUtf8(savedDoc[1].token))
          => (Err(1) = ErrNil /\ result[1].payload = savedDoc)
    /\ (~verified /\ pc[1] = "idle" /\ metadata.key_salt # None)
          => (hasPassword /\ ~unlocked)
    /\ (At(1, "LoadConfig") /\ pre[1].hasPassword /\ ~pre[1].unlocked)
          => Err(1) = errStoreLocked

\* SaveConfig, restart, Unlock, LoadConfig returns the document
C8_Witness ==
    /\ LoadAfterSave /\ Err(1) = ErrNil /\ result[1].payload = savedDoc
    /\ ~savedHere /\ ~pre[1].metadata.key_salt = None

\* C9: an unlocked store holding a key stays unlocked and keeps a key until
\* the process ends; the key changes only when SetPassword, Unlock or
\* UpdatePassword installs one.
C9_UnlockedIsTerminal ==
    [][\/ Restart
       \/ /\ (unlocked /\ key # None) => (unlocked' /\ key' # None)
          /\ key' # key => \E t \in Procs : pc[t] \in {"sp_mem", "ul_mem", "up_mem"}]_vars

C9_Witness ==
    /\ At(1, "UpdatePassword") /\ Err(1) = ErrNil
    /\ pre[1].unlocked /\ unlocked /\ key # pre[1].key

\* C10: a non-empty value of a sensitive key is stored encrypted and flagged
\* encrypted, whatever document SaveConfig is given.
C10_SensitiveItemsEncrypted ==
    \A k \in SensitiveKeys :
       (config_items[k] # None /\ config_items[k][1].value # << >>)
          => config_items[k][1].encrypted = 1

\* What the last ConfigStore.SaveConfig returned, once its transaction is over
ItemsSaved(err) ==
    /\ ~itemsTx.busy
    /\ itemsRet.op = "SaveConfig"
    /\ itemsRet.err = err

\* C11: after ConfigStore.SaveConfig returns nil the keys of config_items are
\* exactly the keys of the saved document, each row holds the saved value,
\* and every key stored before that the document does not have is deleted.
C11_SaveConfigReplacesAll ==
    ItemsSaved(ErrNil) =>
       LET items == configPayloadToItems(itemsRet.payload[1]) IN
       /\ {k \in TableKeys : config_items[k] # None} = DOMAIN items
       /\ \A k \in DOMAIN items : config_items[k][1].value = items[k]

C11_Witness ==
    /\ ItemsSaved(ErrNil)
    /\ \E k \in LegacyKeys : itemsRet.pre[1][k] # None /\ config_items[k] = None
    /\ config_items["token"][1].value # << >>

\* C12: a ConfigStore.SaveConfig that fails at BeginTx, an upsert, the delete
\* or the commit leaves config_items as it was before the call; outside a
\* transaction the table is the last committed one, which is the opened file
\* or the items of one saved document; and a LoadConfig, run between the
\* steps of a SaveConfig or later, returns the rows of one committed table.
C12_SaveConfigAllOrNothing ==
    /\ ItemsSaved(errDB) => config_items = itemsRet.pre[1]
    /\ ~itemsTx.busy => config_items = itemsCommitted
    /\ itemsCommitted \in ItemFiles \cup { ItemsOf(d) : d \in ItemDocs }
    /\ (itemsRet.op = "LoadConfig" /\ itemsRet.err = ErrNil)
          => itemsRet.payload[1] = loadConfigItems(itemsRet.from[1])

\* a SaveConfig whose delete failed after both upserts had run, while a
\* LoadConfig was between its two queries
C12_Witness ==
    /\ ItemsSaved(errDB)
    /\ itemsRet.io = Len(ItemKeySeq) + 1
    /\ ItemsOf(itemsRet.payload[1]) # itemsRet.pre[1]
    /\ config_items = itemsRet.pre[1]
    /\ itemsRd = "counted"

\* The answer request t has just been given by handler op
Answered(t, op) == wpc[t] = "done" /\ resp[t].op = op

\* C13: updateConfig(patch) leaves every field that the patch omits as it
\* was when the call took the configuration lock.
C13_OmittedFieldsUntouched ==
    \A t \in Procs :
       (Answered(t, "POST /api/config") /\ resp[t].status = 200) =>
          \A f \in PayloadKeys :
             resp[t].input[1][f] = None =>
                resp[t].after[1][CfgField(f)] = resp[t].before[1][CfgField(f)]

\* a patch that sets some fields and omits others, applied to a
\* configuration whose omitted fields are not the zero values
C13_Witness ==
    \E t \in Procs :
       /\ Answered(t, "POST /api/config") /\ resp[t].status = 200
       /\ resp[t].input[1]["page_size"] # None
       /\ resp[t].input[1]["token"] = None
       /\ resp[t].after[1] # resp[t].before[1]
       /\ resp[t].after[1].Token # << >>
       /\ resp[t].after[1].NotionParentType # << >>

\* page_size in [1,100], counts >= 0, enumerations in their closed sets
NormalizedPayload(p) ==
    /\ p.page_size \in 1..100
    /\ p.max_conversations >= 0 /\ p.initial_offset >= 0
    /\ p.order \in {sUpdated, sCreated}
    /\ p.target \in {sAnytype, sNotion}
    /\ p.notion_parent_type \in {<< >>, sPage, sDatabase}

NormalizedConfig(c) ==
    /\ c.PageSize \in 1..100
    /\ c.MaxConversations >= 0 /\ c.InitialOffset >= 0
    /\ c.Order \in {sUpdated, sCreated}
    /\ c.ExportTarget \in {sAnytype, sNotion}
    /\ c.NotionParentType \in {<< >>, sPage, sDatabase}

\* the snapshot, every configuration document answered by an endpoint and
\* every document handed to SaveConfig are normalized
EverythingNormalized ==
    /\ NormalizedConfig(cfg)
    /\ \A t \in Procs :
          /\ (wpc[t] = "done" /\ resp[t].status = 200 /\ resp[t].body # None
              /\ "page_size" \in DOMAIN resp[t].body[1]) => NormalizedPayload(resp[t].body[1])
          /\ (frame[t].op = "SaveConfig" /\ frame[t].doc # None)
                => NormalizedPayload(frame[t].doc[1])

\* What the update of field f to v must have stored according to rule
\* pageRule for page sizes: counts below 0 become 0, enumerations fall back
\* to updated / anytype / empty
StoredAs(r, f, pageSize) ==
    LET v == r.input[1][f][1]
        got == r.after[1][CfgField(f)] IN
    CASE f = "page_size" -> got = pageSize
      [] f \in {"max_conversations", "initial_offset"} -> got = (IF v < 0 THEN 0 ELSE v)
      [] f = "order" -> got \in {sUpdated, sCreated} /\ (got = sCreated <=> ToLower(TrimSpace(v)) = sCreated)
      [] f = "target" -> got \in {sAnytype, sNotion} /\ (got = sNotion <=> ToLower(TrimSpace(v)) = sNotion)
      [] f = "notion_parent_type" ->
            IF ToLower(TrimSpace(v)) \in {sPage, sDatabase} THEN got = ToLower(TrimSpace(v))
            ELSE got = << >>
      [] OTHER -> TRUE

\* C14: the snapshot and every document answered or saved is normalized; a
\* page size <= 0 becomes the default 20 and one above 100 becomes 100,
\* negative counts become 0, unrecognized enumerations become the default.
C14_NormalizedWithDefaultPageSize ==
    /\ EverythingNormalized
    /\ \A t \in Procs :
          (Answered(t, "POST /api/config") /\ resp[t].status = 200) =>
             \A f \in PayloadKeys :
                resp[t].input[1][f] # None =>
                   LET v == resp[t].input[1][f][1] IN
                   StoredAs(resp[t], f, IF f # "page_size" THEN 0
                                        ELSE IF v <= 0 THEN defaultPageSize
                                        ELSE IF v > 100 THEN 100 ELSE v)

\* C14 as stated: an out-of-range page size is clamped into [1,100], that is
\* moved to the nearest bound
C14_OutOfRangeClamped ==
    /\ EverythingNormalized
    /\ \A t \in Procs :
          (Answered(t, "POST /api/config") /\ resp[t].status = 200) =>
             \A f \in PayloadKeys :
                resp[t].input[1][f] # None =>
                   StoredAs(resp[t], f, IF f # "page_size" THEN 0
                                        ELSE clampPageSizeToRange(resp[t].input[1][f][1]))

\* an update with page_size 0, negative counts and unknown enumerations has
\* been answered, on a server started from an unnormalized command line
C14_Witness ==
    \E t \in Procs :
       /\ Answered(t, "POST /api/config") /\ resp[t].status = 200
       /\ resp[t].input[1] = UpdateOutOfRange
       /\ resp[t].after[1].PageSize = defaultPageSize
       /\ resp[t].before[1].PageSize = 100
       /\ resp[t].perr = ErrNil

\* C19: an update whose persistence failed because the store is locked or
\* has no password is answered as a success; one whose persistence failed
\* for any other reason is answered with an error.
C19_PersistenceFailureReturned ==
    \A t \in Procs :
       Answered(t, "POST /api/config") /\ resp[t].after # None =>
          IF resp[t].perr \in {ErrNil, errStoreLocked, errPasswordNotSet}
          THEN resp[t].status = 200 /\ resp[t].body = Some(configToPayload(resp[t].after[1]))
          ELSE resp[t].status # 200

\* the store has a password and is locked, as the request saw it
LockedWithPassword(r) == r.st[1].hasPassword /\ ~r.st[1].unlocked

\* C20: GET /api/config answers 403 without configuration data exactly when
\* a password exists and the store is locked; without a password, and with
\* a password once unlocked, it answers 200 with the configuration document.
C20_GetForbiddenOnlyWhenLocked ==
    \A t \in Procs :
       Answered(t, "GET /api/config") =>
          IF LockedWithPassword(resp[t])
          THEN resp[t].status = 403 /\ resp[t].body = None
          ELSE resp[t].status = 200 /\ resp[t].body = Some(configToPayload(cfg))

\* C20 as stated: 403 whenever the store is locked or has no password
C20_GetForbiddenWithoutPassword ==
    \A t \in Procs :
       Answered(t, "GET /api/config") =>
          IF ~resp[t].st[1].hasPassword \/ ~resp[t].st[1].unlocked
          THEN resp[t].status = 403 /\ resp[t].body = None
          ELSE resp[t].status = 200 /\ resp[t].body = Some(configToPayload(cfg))

\* a GET refused on a store that has a password and was restarted locked
C20_Witness ==
    \E t \in Procs :
       /\ Answered(t, "GET /api/config") /\ resp[t].status = 403
       /\ hasPassword /\ ~unlocked /\ savedDoc # None

\* a GET answered with the document on a store without password
C20_WitnessNoPassword ==
    \E t \in Procs :
       /\ Answered(t, "GET /api/config") /\ resp[t].status = 200
       /\ ~hasPassword /\ resp[t].body # None

\* request t was served from the cache: r.entry is the entry it returned
Hit(r) ==
    /\ r.op \in {"getConversationPage", "loadExportConversation"}
    /\ r.status = 200 /\ r.entry # None /\ "fetched" \in DOMAIN r.entry[1]

\* request t was not fetched with force and went to the upstream API
Miss(r) ==
    /\ r.op \in {"getConversationPage", "loadExportConversation"}
    /\ r.status = 200 /\ ~r.force /\ ~Hit(r)

\* C15: a read without force that starts after updateConfig calls have
\* returned is not served an entry cached before the invalidation of any of
\* them: the entry it returns was stored after as many invalidations as
\* updates had returned, whatever its age.
C15_NoEntryFromBeforeUpdate ==
    \A t \in Procs :
       (wpc[t] = "done" /\ Hit(resp[t])) => resp[t].entry[1].inv >= resp[t].done0

\* an update removed a page entry, and a read without force at the same
\* instant, begun after that update returned, went to the upstream API
C15_Witness ==
    \E t \in Procs :
       /\ wpc[t] = "done" /\ resp[t].op = "getConversationPage" /\ Miss(resp[t])
       /\ whist.wiped /\ resp[t].done0 >= 1 /\ now = 0

TTLOf(op) == IF op = "getConversationPage" THEN conversationCacheTTL ELSE detailCacheTTL

\* C16: a read without force returns the cached entry exactly while its age
\* is below the TTL (30 s for pages, 300 s for details), and no read path,
\* the title lookup of loadExportConversation included, uses an entry whose
\* age has reached the TTL.
C16_ServedExactlyWhileFresh ==
    \A t \in Procs :
       wpc[t] = "done" =>
          /\ Hit(resp[t]) => resp[t].at - resp[t].entry[1].fetched < TTLOf(resp[t].op)
          /\ (Miss(resp[t]) /\ resp[t].seen # None) => resp[t].seen[1] >= TTLOf(resp[t].op)
          /\ (resp[t].op = "loadExportConversation" /\ resp[t].status = 200 /\ ~Hit(resp[t])
              /\ resp[t].entry[1].from # None)
                => resp[t].entry[1].age < conversationCacheTTL

\* C17: once an updateConfig has returned, no export client built from a
\* snapshot older than that update stays cached or is returned by
\* resolveAnytypeClient / resolveNotionClient.
C17_NoClientFromOlderSnapshot ==
    /\ anyClient # None => anyClient[1].ver >= whist.doneVer
    /\ notionClient # None => notionClient[1].ver >= whist.doneVer
    /\ \A t \in Procs :
          (/\ wpc[t] = "done"
           /\ resp[t].op \in {"resolveAnytypeClient", "resolveNotionClient"}
           /\ resp[t].client # None)
             => resp[t].client[1].ver >= resp[t].doneVer

\* request t releases configMu in this step, publishing its patch
Publishes(t) == wpc[t] = "uc_unlock" /\ wpc'[t] # "uc_unlock"

\* request t takes its configSnapshot in this step
TakesSnapshot(t) == wpc[t] = "idle" /\ wpc'[t] \in {"ra_build", "rn_build"}

\* Every snapshot published is the previous one with one whole patch
\* applied, and every snapshot taken is a published one
WholePatches ==
    \A t \in Procs :
       /\ Publishes(t) =>
             /\ whist'.committed = Some(ApplyUpdate(whist.committed[1], wframe[t].input[1]))
             /\ \A f \in PayloadKeys :
                   wframe[t].input[1][f] # None =>
                      cfg'[CfgField(f)] = UpdateValue(f, wframe[t].input[1][f][1])
       /\ TakesSnapshot(t) => wframe'[t].snap = whist.committed

\* What readers see is a published snapshot
ReadersSeePublished ==
    /\ configMuFree(configMu) => Some(cfg) = whist.committed
    /\ \A t \in Procs :
          (Answered(t, "GET /api/config") /\ resp[t].status = 200)
             => resp[t].body = Some(configToPayload(resp[t].before[1]))

\* C18: concurrent updateConfig calls are serialized: each published
\* snapshot is the previous one with one whole patch applied (so the patch
\* applied later wins on a field both set), and configSnapshot and
\* currentConfigPayload return published snapshots only.
C18_UpdatesAtomic == []ReadersSeePublished /\ [][WholePatches]_vars

\* both patches have been published, the second while the request of the
\* first was still running; the page size is that of the patch applied later
\* and the tokens of both patches are in place
C18_Witness ==
    \E t, u \in Procs :
       /\ t # u /\ whist.ver = 2
       /\ wpc[t] = "uc_persist" /\ wframe[t].cfgCopy[1].PageSize = 50
       /\ wpc[u] = "uc_inv_page" /\ wframe[u].cfgCopy[1].PageSize = 70
       /\ cfg.PageSize = 70 /\ cfg.AnytypeToken = <<"b">> /\ cfg.NotionToken = <<"c">>

ConfigOps ==
    {"GET /api/config", "POST /api/config", "POST /api/config/unlock",
     "POST /api/config/password"}

\* the status that the kind of the failure calls for
StatusFits(cause, status) ==
    CASE cause = errInvalidPassword -> status = 401
      [] cause \in {causeState, errStoreLocked, errPasswordNotSet, errPasswordExists} -> status = 403
      [] cause \in {causeValidation, errPasswordTooShort} -> status = 400
      [] OTHER -> status \in 500..599

\* C21: a request that a config handler refuses gets 401 for a password
\* mismatch, 403 for the wrong store state, 400 for a validation failure and
\* a 5xx status for every other failure.
C21_StatusByErrorKind ==
    \A t \in Procs :
       (wpc[t] = "done" /\ resp[t].op \in ConfigOps /\ resp[t].status # 200)
          => StatusFits(resp[t].perr, resp[t].status)

\* the unlock request was refused, and not for a blank password or a failed
\* read of the database
UnlockRefused(r) ==
    /\ r.op = "POST /api/config/unlock" /\ r.status # 200
    /\ r.perr \notin {causeValidation, errDB}

\* C22: Unlock on a store with damaged password metadata fails as Unlock with
\* a wrong password does on an intact store: with errInvalidPassword, which
\* the unlock endpoint answers with 401 and the same body.
C22_DamageLooksLikeWrongPassword ==
    \A t \in Procs :
       (wpc[t] = "done" /\ UnlockRefused(resp[t]))
          => resp[t].perr = errInvalidPassword /\ resp[t].status = 401

\* no operation of the configStore is under way
Quiet == \A t \in Procs : pc[t] \in {"idle", "ret"}

UnlockedWithPassword == hasPassword /\ unlocked /\ key # None

KeyMatchesHash == metadata.key_hash = Some(sha256Sum(key[1]))

CiphertextUnderKey == configs # None => configs[1].key = key

\* C23: whatever the interleaving of the operations of concurrent requests,
\* once they have run the store, if unlocked with a password, holds the key
\* whose SHA-256 is the persisted key_hash, and the persisted ciphertext is
\* sealed under that key.
C23_KeyMatchesPersistedHash ==
    (Quiet /\ UnlockedWithPassword) => (KeyMatchesHash /\ CiphertextUnderKey)

----------------------------------------------------------------------------
(* The order of the calls of updateConfig after the lock is released *)

\* The request has handed its document to SaveConfig
Handed(t) == wpc[t] = "uc_persisted" /\ frame[t].op = "SaveConfig"

\* C24 as stated: SaveConfig is called first, the caches are cleared and the
\* clients reset afterwards, so no cache has been cleared and no client reset
\* more often than a document has been handed to the store.
C24_PersistBeforeInvalidate ==
    /\ whist.pageInv <= whist.handed
    /\ whist.detailInv <= whist.handed
    /\ whist.resets <= whist.handed

\* C24, amended: once the lock is released, updateConfig clears the page
\* cache and the detail cache and resets the export clients, and only then
\* hands SaveConfig the complete merged document, the one it answers with;
\* the lock is not held by the request during any of it.
C24_InvalidateBeforePersist ==
    /\ whist.handed <= whist.pageInv
    /\ whist.handed <= whist.detailInv
    /\ whist.handed <= whist.resets
    /\ \A t \in Procs :
         Handed(t) =>
           /\ configMu # t
           /\ frame[t].doc = wframe[t].payload
           /\ wframe[t].payload = Some(configToPayload(wframe[t].cfgCopy[1]))

\* Two updates in flight: one has handed its document over, both have cleared
\* the caches and reset the clients
C24_Witness ==
    /\ whist.handed = 1 /\ whist.pageInv = 2 /\ whist.resets = 2
    /\ \E t \in Procs : Handed(t) /\ wframe[t].cfgCopy[1] # wframe[t].before[1]

----------------------------------------------------------------------------
(* The locks of webServer *)

\* The operation that the step of request t belongs to
StepOp(t) == IF wpc'[t] = "done" THEN resp'[t].op ELSE wframe'[t].op

\* The lock that the step of request t takes: configMu by updateConfig,
\* configSnapshot and currentConfigPayload, cacheMu by getConversationPage,
\* lookupConversationMeta and invalidateConversationCache, detailMu by
\* loadExportConversation and clearDetailCache, the client locks by
\* resetExportClients and the two resolve functions
LockTaken(t) ==
    CASE wpc[t] \in {"uc_lock", "get_read", "gp_snap", "le_snap", "hu_apply"} -> {"configMu"}
      [] wpc[t] = "idle" /\ StepOp(t) \in {"resolveAnytypeClient", "resolveNotionClient"} ->
             {"configMu"}
      [] wpc[t] = "idle" /\ StepOp(t) = "getConversationPage" -> {"cacheMu"}
      [] wpc[t] \in {"uc_inv_page", "gp_store", "le_meta"} -> {"cacheMu"}
      [] wpc[t] = "idle" /\ StepOp(t) = "loadExportConversation" -> {"detailMu"}
      [] wpc[t] \in {"uc_inv_detail", "le_store"} -> {"detailMu"}
      [] wpc[t] \in {"uc_reset_any", "ra_build"} -> {"anyClientMu"}
      [] wpc[t] \in {"uc_reset_notion", "rn_build"} -> {"notionClientMu"}
      [] OTHER -> {}

\* The locks that request t holds from one step to the next
HeldBefore(t) == IF configMu = t THEN {"configMu"} ELSE {}

\* The step of request t calls into the store, a cache or the client pool
CallsDownstream(t) ==
    /\ wpc'[t] # wpc[t]
    /\ wpc[t] \in {"uc_inv_page", "uc_inv_detail", "uc_reset_any", "uc_reset_notion",
                   "uc_persist", "gp_store", "le_meta", "le_store", "ra_build", "rn_build"}

OneLockAtATime ==
    \A t \in Procs :
       wpc'[t] # wpc[t] =>
         /\ Cardinality(HeldBefore(t) \cup LockTaken(t)) <= 1
         /\ CallsDownstream(t) => configMu # t

\* The holder of configMu is at a statement that waits for nothing
HolderRuns == configMu # 0 => wpc[configMu] \in {"uc_apply", "uc_unlock"}

\* C25: no request holds configMu while it calls into the store, the caches
\* or the client pool, no request holds two of the five locks at once, and
\* the holder of configMu never waits, so the requests cannot deadlock.
C25_NoNestedLocks == []HolderRuns /\ [][OneLockAtATime]_vars

\* The update is clearing the page cache, the lock released, while the other
\* request is between its snapshot and its store under cacheMu
C25_Witness ==
    /\ wpc[1] = "uc_inv_page" /\ configMu = 0
    /\ wpc[2] \in {"gp_fetch", "le_meta"}

----------------------------------------------------------------------------
(* Reads of the live configuration *)

\* The configurations that are consistent at this moment: the one published
\* by the last release of configMu and, while an update holds the lock, the
\* one it is about to publish
ConsistentSnapshots ==
    {whist.committed[1]} \cup
    (IF configMu # 0
     THEN {ApplyUpdate(wframe[configMu].before[1], wframe[configMu].input[1])}
     ELSE {})

\* The step of request t builds a document from s.cfg: persistConfig(s.cfg)
\* after SetPassword, configToPayload(s.cfg) before UpdatePassword
BuiltFromLive(t) ==
    IF wpc[t] = "cp_persist" /\ wpc'[t] = "cp_persisted" THEN frame'[t].doc
    ELSE IF wpc[t] = "cp_rotate" /\ wpc'[t] = "cp_rotated" THEN wframe'[t].payload
    ELSE IF wpc[t] = "get_read" /\ wpc'[t] = "done" THEN resp'[t].body
    ELSE None

ReadsConsistent ==
    \A t \in Procs :
       BuiltFromLive(t) # None =>
         \E c \in ConsistentSnapshots : BuiltFromLive(t)[1] = configToPayload(c)

\* s.cfg changes only in a step of the request that holds configMu, or in
\* the step of handleConfigUnlock that takes and releases it
WritesUnderLock ==
    cfg' # cfg => \/ configMu # 0 /\ wframe'[configMu] # wframe[configMu]
                  \/ configMu = 0 /\ \E t \in Procs : wpc[t] = "hu_apply" /\ wpc'[t] = "done"

\* C26: s.cfg is written only under configMu, and every document that a
\* handler persists or returns, the ones of the set-password and rotation
\* paths included, is built from a consistent snapshot, never from a
\* configuration that an update is modifying at that moment.
C26_ConsistentDocuments == [][WritesUnderLock /\ ReadsConsistent]_vars

----------------------------------------------------------------------------
(* Values that cross the lock of a cache *)

\* The values that the callers hold: (request, value)
Returned ==
    { <<t, resp[t].body[1]>> :
        t \in { u \in Procs : /\ wpc[u] = "done"
                              /\ resp[u].op \in {"getConversationPage", "loadExportConversation"}
                              /\ resp[u].body # None } }

\* The values that the caches hold
Cached ==
    { pageCache[k][1].data : k \in { j \in PageKeys : pageCache[j] # None } }
    \cup { detailCache[id][1].data : id \in { j \in ConvIds : detailCache[j] # None } }

\* No returned value has the backing array of a cached value or of a value
\* returned to another request
NoSharedStorage ==
    \A r \in Returned :
       /\ \A c \in Cached : c.arr # r[2].arr
       /\ \A q \in Returned : q[1] # r[1] => q[2].arr # r[2].arr

\* What is in the caches is what was fetched
CachedAsFetched ==
    \A c \in Cached :
       IF "messages" \in DOMAIN c
       THEN c.messages = << sMessage >>
       ELSE \A i \in 1..Len(c.items) : c.items[i].title = sTitle

\* C27: a page or an export returned by getConversationPage or
\* loadExportConversation shares no slice storage with the cached entry or
\* with a value returned to another caller, so a caller that writes into its
\* value never changes what the cache holds for a later reader.
C27_ReturnedValuesAreCopies == NoSharedStorage /\ CachedAsFetched

----------------------------------------------------------------------------
(* What is served after the configuration has changed *)

\* A request that began after the last change had returned is served an
\* entry or a client that is not older than that change
HitAfterChange(t) ==
    (wpc'[t] = "done" /\ wpc[t] = "idle" /\ Hit(resp'[t]))
       => resp'[t].entry[1].ver >= whist.doneVer

ClientAfterChange(t) ==
    (wpc'[t] = "done" /\ wpc[t] \in {"ra_build", "rn_build"} /\ resp'[t].client # None)
       => resp'[t].client[1].ver >= wframe[t].doneVer0

\* C28: after any change of the in-memory configuration, the one that a
\* successful unlock makes included, no later request is served a page or an
\* export from an entry stored before the change, nor an export client built
\* before it.
C28_ServedAfterLastChange ==
    [][\A t \in Procs : HitAfterChange(t) /\ ClientAfterChange(t)]_vars

\* The entries of both caches
Entries ==
    { pageCache[k][1] : k \in { j \in PageKeys : pageCache[j] # None } }
    \cup { detailCache[id][1] : id \in { j \in ConvIds : detailCache[j] # None } }

\* C29: once an updateConfig has returned, neither cache holds, and no read
\* is served, an entry fetched with a snapshot that this update superseded:
\* a fetch that began before the update and ended after its invalidation
\* leaves nothing in the cache.
C29_NoSupersededEntry ==
    /\ \A e \in Entries : e.ver >= whist.doneVer
    /\ \A t \in Procs :
          (wpc[t] = "done" /\ Hit(resp[t])) => resp[t].entry[1].ver >= resp[t].doneVer

----------------------------------------------------------------------------
(* The persisted document and the live configuration *)

\* No request is inside a handler
AllReturned == \A t \in Procs : wpc[t] \in {"idle", "done"}

\* The document that the configs row holds
PersistedDocument == decrypt(key, configs[1])

\* C30: with the store unlocked and no SaveConfig having failed, once all
\* updateConfig calls have returned the persisted document is the one of the
\* in-memory configuration: the update applied last is also written last.
C30_PersistedIsLive ==
    (AllReturned /\ hasPassword /\ unlocked /\ ~whist.failed /\ whist.done >= 1)
       => configs # None /\ PersistedDocument = jsonMarshal(configToPayload(cfg))

----------------------------------------------------------------------------
(* Rotation of the password through POST /api/config/password *)

\* The rotation of request t answers 200 in this step; wframe[t].data is the
\* configs row as the request found it
RotationAnswers(t) ==
    wpc[t] = "cp_saved" /\ wpc'[t] = "done" /\ resp'[t].status = 200

\* C31: after a successful rotation LoadConfig returns the document that was
\* stored before it, also when the old password of the request unlocked the
\* server: the configs row opens under the new key and holds the bytes it
\* held when the request arrived.
C31_RotationKeepsDocument ==
    [][\A t \in Procs :
         (RotationAnswers(t) /\ wframe[t].data # None) =>
            /\ configs' # None
            /\ decryptOk(key', configs'[1])
            /\ decrypt(key', configs'[1]) = decrypt(key, wframe[t].data[1])]_vars

\* The password opens the store whose metadata is meta
Verifies(p, meta) ==
    /\ meta.key_salt # None /\ meta.key_hash # None
    /\ HashMatches(deriveKey(p, meta.key_salt[1]), meta.key_hash[1])

\* The rotation request t is answered in this step; wframe[t].old is its
\* old password, wframe[t].st0 the metadata and the key it found
RotationEnds(t) ==
    /\ wframe[t].op = "POST /api/config/password" /\ wframe[t].st0 # None
    /\ wpc[t] # "done" /\ wpc'[t] = "done"

\* C32: on a store that has a password, POST /api/config/password replaces
\* key_salt / key_hash only if the old password of the request verifies
\* against the stored key_hash; with a wrong old password the metadata and
\* the in-memory key stay as they were and the answer is 401, on a locked
\* and on an unlocked server.
C32_RotationNeedsOldPassword ==
    [][\A t \in Procs :
         (RotationEnds(t) /\ ~Verifies(wframe[t].old, wframe[t].st0[1].metadata)) =>
            /\ resp'[t].status = 401
            /\ metadata' = wframe[t].st0[1].metadata
            /\ key' = wframe[t].st0[1].key]_vars


\* The delete request t answers, with an error or not
DeleteAnswers(t) ==
    /\ wframe[t].op = "POST /api/conversations/delete"
    /\ wpc[t] # "done" /\ wpc'[t] = "done"

\* The ids that request t has deleted upstream
DeletedBy(t) == { wframe[t].data[1][j] : j \in 1..Len(wframe[t].data[1]) }

\* C33: whenever handleDelete answers after it has deleted at least one
\* conversation upstream, with 200 or with an error for a later id, no detail
\* entry of a deleted conversation that was cached before the request is
\* left, and the page cache was invalidated during the request
C33_DeleteEvictsBeforeReturn ==
    [][\A t \in Procs :
         (DeleteAnswers(t) /\ DeletedBy(t) # {}) =>
            /\ \A id \in DeletedBy(t) \cap ConvIds :
                  \/ detailCache'[id] = None
                  \/ detailCache'[id][1].inv > wframe[t].inv0[1].detail
            /\ whist'.pageInv > wframe[t].inv0[1].page]_vars


CacheReads == {"getConversationPage", "loadExportConversation"}

\* The read t returns an error: the token is missing or the fetch failed
ReadFails(t) ==
    /\ wframe[t].op \in CacheReads
    /\ wpc[t] # "done" /\ wpc'[t] = "done"
    /\ resp'[t].status # 200

\* The read t takes a step other than the one that stores what it fetched
ReadStepsBeforeStore(t) ==
    /\ wframe[t].op \in CacheReads
    /\ wpc'[t] # wpc[t]
    /\ wpc[t] \notin {"gp_store", "le_store"}

\* C34: a read that fails has changed no cache: none of its steps before the
\* store adds, replaces or removes an entry, and when it returns its error it
\* has removed no entry on the way, with force as well as without
C34_FailedFetchKeepsCaches ==
    [][\A t \in Procs :
         /\ ReadStepsBeforeStore(t) => pageCache' = pageCache /\ detailCache' = detailCache
         /\ ReadFails(t) => wframe[t].removed = None]_vars


\* What the store itself tells: HasPassword() and Unlocked()
StoreBody(st) == [has_password |-> st.hasPassword, unlocked |-> st.unlocked]

\* No start and no request is under way
AtRest == \A t \in Procs : wpc[t] \in {"idle", "done"}

\* C35 as stated: whatever else is under way, GET /api/config/state answers
\* the store's own HasPassword() and Unlocked()
C35_StateMatchesStore ==
    \A t \in Procs :
       resp[t].op = "GET /api/config/state" => resp[t].body[1] = StoreBody(resp[t].st[1])

\* C35: after any sequence of starts with a secret, unlocks, set-password and
\* rotation requests, successful or failed, and with none of them under way,
\* the flags that GET /api/config/state reports are the store's own
\* HasPassword() and Unlocked()
C35_FlagsMirrorStoreAtRest == AtRest => StateBody = StoreBody(StoreFlags)

\* GET /api/config/state is answered at rest after a rotation
C35_Witness ==
    /\ AtRest /\ rotated
    /\ \E t \in Procs :
          /\ resp[t].op = "GET /api/config/state"
          /\ resp[t].body = Some([has_password |-> TRUE, unlocked |-> TRUE])


\* The request that sets the first password answers 200
FirstPasswordSet(t) ==
    /\ wpc[t] = "cp_persisted" /\ wpc'[t] = "done"
    /\ resp'[t].status = 200

\* What a process started with the command line c holds after Unlock:
\* LoadConfig decrypts the row under the key of the store, and the handler
\* applies the document to the configuration it started with
AfterRestartAndUnlock(c) ==
    applyConfigPayload(StartConfig(c), jsonUnmarshal(decrypt(key', configs'[1])))

\* C36: when the first password is set through POST /api/config/password,
\* the configuration as edited so far is persisted under the new key: a
\* process started afterwards, with whatever command line, holds the edited
\* configuration once it is unlocked
C36_EditsSurviveFirstPassword ==
    [][\A t \in Procs :
         FirstPasswordSet(t) =>
            /\ configs' # None
            /\ decryptOk(key', configs'[1])
            /\ \A c \in {CliDefault, CliRaw} : AfterRestartAndUnlock(c) = cfg]_vars


Resolves == {"resolveAnytypeClient", "resolveNotionClient"}

\* The call of request t has returned a client
Resolved(t) == wpc[t] = "done" /\ resp[t].op \in Resolves /\ resp[t].client # None

\* The resets of the platform of op counted so far, and its field
EpochOf(op) == IF op = "resolveAnytypeClient" THEN whist.anyResets ELSE whist.resets

CachedClient(op) == IF op = "resolveAnytypeClient" THEN anyClient ELSE notionClient

\* Two calls for a platform that returned with no reset in between hold the
\* same instance, and it is the instance cached as long as no reset follows
SameInstance ==
    \A t \in Procs :
       Resolved(t) =>
          /\ \A u \in Procs :
                (Resolved(u) /\ resp[u].op = resp[t].op /\ resp[u].epoch = resp[t].epoch)
                   => resp[u].client = resp[t].client
          /\ (resp[t].epoch = EpochOf(resp[t].op) /\ CachedClient(resp[t].op) # None)
                => CachedClient(resp[t].op) = resp[t].client

\* the credential that newAnytypeClient / newNotionClient asks of the snapshot
Credential(op, c) ==
    IF op = "resolveAnytypeClient" THEN c.AnytypeToken ELSE TrimSpace(c.NotionToken)

\* The call of request t returns in this step
ResolveReturns(t) == wframe[t].op \in Resolves /\ wpc[t] # "done" /\ wpc'[t] = "done"

\* A call fails only if nothing is cached and the credential is missing from
\* its snapshot; it then returns no client and leaves both fields as they are
FailsForCredentialOnly(t) ==
    ResolveReturns(t) =>
       IF CachedClient(wframe[t].op) = None /\ Credential(wframe[t].op, wframe[t].snap[1]) = << >>
       THEN /\ resp'[t].status # 200 /\ resp'[t].client = None
            /\ anyClient' = anyClient /\ notionClient' = notionClient
       ELSE resp'[t].status = 200 /\ resp'[t].client # None

StartReturns(t) ==
    /\ wframe[t].op = "newWebServer"
    /\ wpc'[t] \in {"done", "exited"}

\* the store as newConfigStore opened it
Opened(t) == wframe[t].st0[1]

\* The store had a password and Unlock(secret) failed: the server starts,
\* locked, and the store is as it was opened
StartsLockedAfterFailedUnlock(t) ==
    (Opened(t).hasPassword /\ wframe[t].meta # Some(ErrNil)) =>
       /\ resp'[t].status = 200
       /\ ~configUnlocked' /\ ~unlocked' /\ key' = None
       /\ metadata' = Opened(t).metadata /\ configs' = wframe[t].data
       /\ cfg' = whist.committed[1]

\* The store had no password: the secret is its password now and the
\* configuration of the server is the document stored
SecretSetAndPersisted(t) ==
    ~Opened(t).hasPassword =>
       /\ resp'[t].status = 200
       /\ hasPassword' /\ unlocked' /\ appHasPassword' /\ configUnlocked'
       /\ Verifies(wframe[t].pw, metadata')
       /\ configs' # None /\ decryptOk(key', configs'[1])
       /\ jsonUnmarshal(decrypt(key', configs'[1])) = configToPayload(cfg')

\* A document is applied only if the store ends up unlocked
AppliedOnlyIfUnlocked(t) ==
    /\ resp'[t].body # None => (unlocked' /\ key' # None /\ configUnlocked')
    /\ ~unlocked' => cfg' = whist.committed[1]

\* C38: at startup with a config secret: if the store has a password the
\* server tries Unlock(secret) and on failure still starts, locked and with the
\* store unchanged; if the store has no password the secret is set as the
\* password and the current configuration is persisted; a persisted
\* configuration is applied only if the store ends up unlocked
C38_StartWithSecret ==
    [][\A t \in Procs :
         StartReturns(t) =>
            /\ StartsLockedAfterFailedUnlock(t)
            /\ SecretSetAndPersisted(t)
            /\ AppliedOnlyIfUnlocked(t)]_vars

====
